---- MODULE Spec2Model ----
(***************************************************************************)
(* Execution core of the Soroban debugger: one ContractExecutor session.   *)
(*                                                                         *)
(* The main thread runs the caller's API operations (execute, set_timeout, *)
(* snapshot_storage, restore_storage, set_mock_registry); execute runs     *)
(* invoke_function phase by phase.  Every invocation with timeout_secs > 0 *)
(* spawns a watchdog thread that blocks in recv_timeout on a one-shot      *)
(* channel and calls process::exit(124) on a timeout.                      *)
(***************************************************************************)
EXTENDS Integers, Sequences, FiniteSets, TLC

VARIABLES
    pc,              \* position of the main thread
    cur,             \* locals of the running invoke_function
    storage,         \* the host sandbox's storage
    last_execution,  \* ContractExecutor.last_execution
    timeout_secs,    \* ContractExecutor.timeout_secs
    mock_registry,   \* the MockRegistry behind ContractExecutor.mock_registry
    dispatchers,     \* host table: contract id -> registry its dispatcher holds
    snap,            \* the StorageSnapshot the caller holds, if any
    ncalls,          \* channels created so far (one per invoke_function past line 77)
    wd,              \* state of each invocation's watchdog thread
    chan,            \* each invocation's mpsc channel
    clock,           \* seconds the armed watchdog has been waiting in recv_timeout
    exitCode,        \* Some(code) once process::exit(code) ran, None while it runs
    exitedBy,        \* the invocation whose watchdog called process::exit, else 0
    lastResult,      \* what the last completed API operation returned
    events,          \* observable phases of the current invocation, in order
    lastInvoke,      \* the host outcome and the return value of the last invoke_function
    entry,           \* the inspector's view of the storage when execute was entered
    prevAfter,       \* storage_after of the latest capture still current
    snapObs,         \* the inspector's view of the storage when snap was taken
    dry,             \* a snapshot / execute / restore sequence in progress, and
                     \* what the caller could observe when it began
    spinner,         \* the progress spinner of invoke_function
    load,            \* position of a running load_contract, or how the last one ended
    pb,              \* the progress bar of load_contract
    arity_in,        \* the type name handed to tuple_arity_from_type_name
    arity_out,       \* what tuple_arity_from_type_name returned for it
    norm_in,         \* signatures, function and --args text of a normalisation
    norm_out,        \* what normalize_args_for_function returned for norm_in
    norm_again,      \* what it returned for the text it had returned
    eval_in,         \* condition, storage and arguments of an evaluate_condition
    eval_out,        \* what evaluate_condition returned for eval_in
    breakpoints,     \* BreakpointManager.breakpoints
    bp_names,        \* the function names added and not removed since
    bp_last,         \* the last call of the BreakpointManager
    cond_in,         \* the condition string handed to parse_condition
    cond_out,        \* what parse_condition returned for cond_in
    cond_again,      \* what it returned for the Display of the condition parsed
    up_in,           \* the two binaries and the execution diffs handed to analyze
    up_out,          \* what analyze(old, new) returned
    up_back,         \* what analyze(new, old) returned
    hosts,           \* the sandboxes Env::default() has created in the process
    registries,      \* the Arc<Mutex<MockRegistry>> cells allocated in the process
    executors,       \* the ContractExecutor values the caller holds
    actor,           \* the executor on which the caller called last
    oracle_storage,  \* instance and persistent storage of the OraclePriceFeed
    oracle_ledger,   \* env.ledger().timestamp() of the oracle's sandbox
    oracle_call,     \* the last call of the oracle: arguments, result, storage before
    oracle_hist      \* what the successful calls of the oracle have established

vars == <<pc, cur, storage, last_execution, timeout_secs, mock_registry,
          dispatchers, snap, ncalls, wd, chan, clock, exitCode, exitedBy,
          lastResult,
          lastInvoke, events, entry, prevAfter, snapObs, dry, spinner, load, pb,
          arity_in, arity_out, norm_in, norm_out, norm_again,
          eval_in, eval_out, breakpoints, bp_names, bp_last,
          cond_in, cond_out, cond_again, up_in, up_out, up_back,
          hosts, registries, executors, actor,
          oracle_storage, oracle_ledger, oracle_call, oracle_hist>>

-----------------------------------------------------------------------------
(* Bounds of the model *)

MaxCalls == 2
MaxVal == 2
MaxRegistries == 3
MaxTime == 2
MaxTtl == 2

(* Program constants *)

DefaultTimeoutSecs == 30
TimeoutExitCode == 124

-----------------------------------------------------------------------------
(* Values *)

None == [some |-> FALSE]
Some(x) == [some |-> TRUE, v |-> x]

Running == None

Keys == {"counter"}
Storages == UNION {[D -> 1..MaxVal] : D \in SUBSET Keys}
EmptyStorage == <<>>

Exported == {"increment"}
Functions == Exported \cup {"missing"}
NoArgs == "none"
ArgInputs == {NoArgs, "[1]", "[1"}
ContractIds == {"CMOCK"}
TimeoutChoices == {0, 1}
RetVals == {42}
ErrorCodes == {1}
\* What storage_fn returns: execute passes || self.get_storage_snapshot(),
\* which always returns Ok; the closure of another caller may fail.
StorageFnOutcomes(c) == IF c.via = "execute" THEN {"ok"} ELSE {"ok", "err"}

Ok(x) == [ok |-> TRUE, v |-> x]
Err(kind, msg) == [ok |-> FALSE, err |-> kind, msg |-> msg]

-----------------------------------------------------------------------------
(* Pure functions *)

\* StorageInspector::capture_snapshot: the HashMap<String, String> view of the
\* host storage (present keys only, values stringified).
CaptureSnapshot(st) == [k \in DOMAIN st |-> ToString(st[k])]

Val(n) == [val |-> n]
ToScVal(v) == [scval |-> v.val]
ToScVals(vs) == [i \in DOMAIN vs |-> ToScVal(vs[i])]
DebugVal(v) == <<"Val", v.val>>

\* parser::parse_args: normalise, then ArgumentParser::parse_args_string; every
\* failure is InvalidArguments.
ParseArgs(function, json) ==
    CASE json = "[1]" -> Ok(<<Val(1)>>)
      [] OTHER        -> Err("InvalidArguments", <<"Invalid JSON in --args">>)

\* The nested result of Env::try_invoke_contract::<Val, InvokeError>, and
\* whether ScVal::try_from_val accepts the returned Val.
HostResults ==
    {[kind |-> "OkOk", n |-> v, conv |-> b] : v \in RetVals, b \in BOOLEAN}
    \cup {[kind |-> "Contract", n |-> c, conv |-> TRUE] : c \in ErrorCodes}
    \cup {[kind |-> k, n |-> 0, conv |-> TRUE] : k \in {"OkErr", "Abort", "ErrErr"}}

NoHostResult == [kind |-> "none", n |-> 0, conv |-> TRUE]

ErrorPair(msg) == <<Err("ExecutionError", msg), Err("record", msg)>>

\* A formatter that reports every failure with one message.
FormatCollapsed(r) ==
    IF r.kind = "OkOk" /\ r.conv
    THEN <<Ok(DebugVal(Val(r.n))), Ok(ToScVal(Val(r.n)))>>
    ELSE ErrorPair(<<"Execution failed">>)

\* result::format_invocation_result: <<display_result, record_result>>.
FormatInvocationResult(r) ==
    CASE r.kind = "OkOk" /\ r.conv  -> <<Ok(DebugVal(Val(r.n))), Ok(ToScVal(Val(r.n)))>>
      [] r.kind = "OkOk" /\ ~r.conv -> ErrorPair(<<"Result conversion failed: ", ToString(r.n)>>)
      [] r.kind = "OkErr"    -> ErrorPair(<<"Return value conversion failed: ", ToString(r.n)>>)
      [] r.kind = "Contract" -> ErrorPair(<<"The contract returned an error code: ", ToString(r.n)>>)
      [] r.kind = "Abort"    -> ErrorPair(<<"Contract execution was aborted.">>)
      [] OTHER               -> ErrorPair(<<"Invocation failed with internal error: ", ToString(r.n)>>)

NoCall ==
    [via |-> "execute", function |-> "", args |-> NoArgs, parsed_args |-> <<>>,
     timeout |-> 0, id |-> 0,
     storage_before |-> <<>>, sc_args |-> <<>>, invocation_result |-> NoHostResult,
     storage_after |-> <<>>, display_result |-> Err("none", <<>>),
     record_result |-> Err("none", <<>>)]

\* A record with the two captures of the storage exchanged.
RecordSwapped(c) ==
    [function |-> c.function, args |-> c.sc_args, result |-> c.record_result,
     storage_before |-> c.storage_after, storage_after |-> c.storage_before]

\* ExecutionRecord built at the end of invoke_function.
Record(c) ==
    [function |-> c.function, args |-> c.sc_args, result |-> c.record_result,
     storage_before |-> c.storage_before, storage_after |-> c.storage_after]

\* MockRegistry: the contract ids it mocks and its call log.
Registry(ids) == [ids |-> ids, calls |-> <<>>, poisoned |-> FALSE]

\* Mutex::lock: Err(PoisonError) once a holder of the lock has panicked.
Lock(reg) == IF reg.poisoned THEN Err("PoisonError", <<>>) ELSE Ok(reg)

\* Accessors of the executor.
LastExecution == last_execution
\* .lock().map(|r| r.calls().to_vec()).unwrap_or_default()
GetMockCallLog ==
    IF Lock(mock_registry).ok THEN Lock(mock_registry).v.calls ELSE <<>>
GetStorageSnapshot == CaptureSnapshot(storage)
Obs == [storage |-> GetStorageSnapshot, last_execution |-> LastExecution,
        mock_log |-> GetMockCallLog]

NoEntry == [function |-> "", args |-> NoArgs, storage |-> <<>>]

Calls == 1..MaxCalls
Armed(i) == wd[i] = "waiting" /\ ~chan[i].msg /\ chan[i].txAlive
\* A channel: whether the signal is in it, whether the sender is alive, the
\* timeout its receiver waits with, and whether the signal or the drop of the
\* sender came while the receiver was still waiting.
NoChannel == [msg |-> FALSE, txAlive |-> FALSE, timeout |-> 0, early |-> FALSE]

-----------------------------------------------------------------------------
(* ContractExecutor::new *)

InitExecutor ==
    /\ pc = "idle"
    /\ cur = NoCall
    /\ storage = EmptyStorage
    /\ last_execution = None
    /\ timeout_secs = DefaultTimeoutSecs
    /\ mock_registry = Registry({})
    /\ dispatchers = [c \in ContractIds |-> "none"]
    /\ snap = None
    /\ ncalls = 0
    /\ wd = [i \in Calls |-> "none"]
    /\ chan = [i \in Calls |-> NoChannel]
    /\ clock = 0
    /\ exitCode = Running
    /\ exitedBy = 0
    /\ lastResult = [op |-> "new", res |-> Ok(<<>>)]
    /\ events = <<>>
    /\ entry = NoEntry
    /\ lastInvoke = None
    /\ prevAfter = None
    /\ snapObs = <<>>
    /\ dry = [stage |-> "none", obs |-> <<>>]
    /\ spinner = "none"
    /\ load = "ok"
    /\ pb = "cleared"

Result(op, res) == [op |-> op, res |-> res]

\* No API operation has returned yet: execute is still running.
Pending == Result("execute", Err("pending", <<>>))

Alive == exitCode = Running

NoDry == [stage |-> "none", obs |-> <<>>]

-----------------------------------------------------------------------------
(* ContractExecutor::execute, up to the call of invoke_function *)

\* A validation that parses the arguments before it looks for the export.
ValidateArgsFirst(function, args) ==
    LET parsed == IF args = NoArgs THEN Ok(<<>>) ELSE ParseArgs(function, args)
    IN IF ~parsed.ok THEN parsed
       ELSE IF function \notin Exported THEN Err("InvalidFunction", <<function>>)
       ELSE parsed

\* Steps 1 and 2 of execute: the export check, then argument parsing.
Validate(function, args) ==
    IF function \notin Exported
    THEN Err("InvalidFunction", <<function>>)
    ELSE IF args = NoArgs THEN Ok(<<>>) ELSE ParseArgs(function, args)

mainVars == <<pc, cur, lastResult, lastInvoke, events>>
sandboxVars == <<storage, mock_registry>>
execVars == <<last_execution, timeout_secs, dispatchers>>
callerVars == <<snap, snapObs>>
wdVars == <<ncalls, wd, chan, clock, exitCode, exitedBy>>
loaderVars == <<load, pb>>
arityVars == <<arity_in, arity_out>>
normVars == <<norm_in, norm_out, norm_again>>

\* The inputs and results of the functions that work on their arguments only.
evalVars == <<eval_in, eval_out>>
breakVars == <<breakpoints, bp_names, bp_last>>
condVars == <<cond_in, cond_out, cond_again>>

\* The components outside the runtime and the breakpoint manager.
upVars == <<up_in, up_out, up_back>>
procVars == <<hosts, registries, executors, actor>>
oracleVars == <<oracle_storage, oracle_ledger, oracle_call, oracle_hist>>
toolVars == <<condVars, upVars, procVars, oracleVars>>
pureVars == <<arityVars, normVars, evalVars, breakVars, toolVars>>

\* What the executor's operations and the watchdog threads never touch.
others == <<loaderVars, pureVars>>

Execute(function, args) ==
    /\ Alive /\ pc = "idle"
    /\ dry' = IF dry.stage = "snap" THEN [dry EXCEPT !.stage = "exec"] ELSE NoDry
    /\ events' = <<>>
    /\ LET parsed == Validate(function, args) IN
        IF parsed.ok
        THEN /\ ncalls < MaxCalls
             /\ pc' = "storage_before"
             /\ cur' = [NoCall EXCEPT !.function = function, !.args = args,
                                      !.parsed_args = parsed.v,
                                      !.timeout = timeout_secs]
             /\ lastResult' = Pending
             /\ lastInvoke' = None
             /\ entry' = [function |-> function, args |-> args,
                           storage |-> GetStorageSnapshot]
        ELSE /\ lastResult' = Result("execute", parsed)
             /\ lastInvoke' = None
             /\ entry' = NoEntry
             /\ UNCHANGED <<pc, cur>>
    /\ UNCHANGED <<sandboxVars, execVars, callerVars, wdVars, prevAfter>>
    /\ spinner' = IF pc' = "idle" THEN spinner ELSE "ticking"
    /\ UNCHANGED others

-----------------------------------------------------------------------------
(* invoker::invoke_function *)

\* The argument vectors and timeouts of a direct call of invoke_function.
ParsedArgInputs == {<<>>, <<Val(1)>>}

\* invoke_function called by a caller other than execute, with a storage_fn
\* of its own: lines 31-58, up to the first capture.
InvokeFunction(parsed_args, timeout) ==
    /\ Alive /\ pc = "idle"
    /\ ncalls < MaxCalls
    /\ pc' = "storage_before"
    /\ cur' = [NoCall EXCEPT !.via = "direct", !.function = "increment",
                             !.parsed_args = parsed_args, !.timeout = timeout]
    /\ lastResult' = Result("invoke_function", Err("pending", <<>>))
    /\ lastInvoke' = None
    /\ entry' = NoEntry
    /\ events' = <<>>
    /\ dry' = NoDry
    /\ spinner' = "ticking"
    /\ UNCHANGED <<sandboxVars, execVars, callerVars, wdVars, prevAfter, others>>

\* An order in which the result is formatted before the second capture.
AfterFormatFirst(p) ==
    CASE p = "storage_before" -> "convert_args"
      [] p = "convert_args"   -> "watchdog"
      [] p = "watchdog"       -> "invoke"
      [] p = "invoke"         -> "cancel"
      [] p = "cancel"         -> "format"
      [] p = "format"         -> "storage_after"
      [] p = "storage_after"  -> "emit"
      [] p = "emit"           -> "return"

\* An order in which the signal is sent after the second capture.
AfterCancelLate(p) ==
    CASE p = "storage_before" -> "convert_args"
      [] p = "convert_args"   -> "watchdog"
      [] p = "watchdog"       -> "invoke"
      [] p = "invoke"         -> "storage_after"
      [] p = "storage_after"  -> "cancel"
      [] p = "cancel"         -> "format"
      [] p = "format"         -> "emit"
      [] p = "emit"           -> "return"

\* The statement order of invoke_function: the position after each one.
After(p) ==
    CASE p = "storage_before" -> "convert_args"
      [] p = "convert_args"   -> "watchdog"
      [] p = "watchdog"       -> "invoke"
      [] p = "invoke"         -> "cancel"
      [] p = "cancel"         -> "storage_after"
      [] p = "storage_after"  -> "format"
      [] p = "format"         -> "emit"
      [] p = "emit"           -> "return"

\* The operation the caller is in: execute, or invoke_function called directly.
Op(c) == IF c.via = "execute" THEN "execute" ELSE "invoke_function"

\* An early error return of invoke_function, propagated by execute with `?`.
ReturnEarly(e) ==
    /\ pc' = "idle"
    /\ cur' = NoCall
    /\ lastResult' = Result(Op(cur), e)
    /\ lastInvoke' = Some([host |-> NoHostResult, ret |-> e])
    /\ entry' = NoEntry

StorageBefore ==
    /\ Alive /\ pc = "storage_before"
    /\ events' = Append(events, "storage_before")
    /\ \E o \in StorageFnOutcomes(cur) :
        IF o = "ok"
        THEN /\ cur' = [cur EXCEPT !.storage_before = GetStorageSnapshot]
             /\ pc' = After("storage_before")
             /\ UNCHANGED <<lastResult, lastInvoke>>
        ELSE ReturnEarly(Err("ExecutionError", <<"storage_fn failed", "before">>))
    /\ IF pc' = "idle" THEN TRUE ELSE UNCHANGED entry
    /\ UNCHANGED <<sandboxVars, execVars, callerVars, wdVars, prevAfter, dry>>
    /\ spinner' = IF pc' = "idle" THEN "cleared" ELSE spinner
    /\ UNCHANGED others

ConvertArgs ==
    /\ Alive /\ pc = "convert_args"
    /\ \E o \in {TRUE} \cup {FALSE : i \in DOMAIN cur.parsed_args} :
        IF o
        THEN /\ cur' = [cur EXCEPT !.sc_args = ToScVals(cur.parsed_args)]
             /\ pc' = After("convert_args")
             /\ UNCHANGED <<lastResult, lastInvoke>>
        ELSE ReturnEarly(Err("ExecutionError",
                             <<"Failed to convert arguments to ScVal: ">>))
    /\ IF pc' = "idle" THEN TRUE ELSE UNCHANGED entry
    /\ UNCHANGED <<sandboxVars, execVars, callerVars, wdVars, events, prevAfter, dry>>
    /\ spinner' = IF pc' = "idle" THEN "cleared" ELSE spinner
    /\ UNCHANGED others

\* A watchdog spawned whatever the timeout is.
SpawnedAlways(timeout) == "waiting"

\* The state of the thread spawned for an invocation with this timeout.
Spawned(timeout) == IF timeout > 0 THEN "waiting" ELSE "none"

LaunchWatchdog ==
    /\ Alive /\ pc = "watchdog"
    /\ LET id == ncalls + 1 IN
        /\ ncalls' = id
        /\ cur' = [cur EXCEPT !.id = id]
        /\ chan' = [chan EXCEPT ![id] = [msg |-> FALSE, txAlive |-> TRUE,
                                         timeout |-> cur.timeout,
                                         early |-> FALSE]]
        /\ wd' = [wd EXCEPT ![id] = Spawned(cur.timeout)]
    /\ clock' = 0
    /\ pc' = After("watchdog")
    /\ UNCHANGED <<sandboxVars, execVars, callerVars, exitCode, exitedBy, lastResult,
                   lastInvoke, events, entry, prevAfter, dry>>
    /\ UNCHANGED <<spinner, others>>

\* The cross-contract calls a guest can make to mocked contracts in one
\* invocation: none, or one call to a contract with a registered dispatcher.
MockedCalls == {<<>>} \cup {<<c>> : c \in {d \in ContractIds : dispatchers[d] # "none"}}

\* MockContractDispatcher: append the call to the log of the registry it holds;
\* a registry the executor has replaced is read by nobody.
Dispatch(reg, calls) ==
    IF calls # <<>> /\ dispatchers[calls[1]] = "current" /\ Lock(reg).ok
    THEN [reg EXCEPT !.calls = Append(@, [contract_id |-> calls[1], function |-> "mocked"])]
    ELSE reg

HostCall ==
    /\ Alive /\ pc = "invoke"
    /\ \E r \in HostResults, st \in Storages, m \in MockedCalls :
        /\ storage' = st
        /\ mock_registry' = Dispatch(mock_registry, m)
        /\ cur' = [cur EXCEPT !.invocation_result = r]
    /\ events' = Append(events, "invocation")
    /\ prevAfter' = None
    /\ pc' = After("invoke")
    /\ UNCHANGED <<execVars, callerVars, wdVars, lastResult, lastInvoke, entry, dry>>
    /\ UNCHANGED <<spinner, others>>

\* A dispatcher panics while it holds the lock of the registry: the lock is
\* poisoned, and the host reports the call as failed.
DispatcherPanic ==
    /\ Alive /\ pc = "invoke"
    /\ \E c \in ContractIds : dispatchers[c] = "current"
    /\ \E r \in {h \in HostResults : h.kind \in {"Abort", "ErrErr"}}, st \in Storages :
        /\ storage' = st
        /\ cur' = [cur EXCEPT !.invocation_result = r]
    /\ mock_registry' = [mock_registry EXCEPT !.poisoned = TRUE]
    /\ events' = Append(events, "invocation")
    /\ prevAfter' = None
    /\ pc' = After("invoke")
    /\ UNCHANGED <<execVars, callerVars, wdVars, lastResult, lastInvoke, entry, dry>>
    /\ UNCHANGED <<spinner, others>>

\* A panic inside the host call unwinds invoke_function: tx is dropped unsent.
HostPanic ==
    /\ Alive /\ pc = "invoke"
    /\ pc' = "unwound"
    /\ chan' = [chan EXCEPT ![cur.id].txAlive = FALSE,
                             ![cur.id].early = (wd[cur.id] = "waiting")]
    /\ clock' = 0
    /\ cur' = NoCall
    /\ prevAfter' = None
    /\ UNCHANGED <<sandboxVars, execVars, callerVars, ncalls, wd, exitCode, exitedBy,
                   lastResult, lastInvoke, events, entry, dry>>
    /\ spinner' = "dropped"
    /\ UNCHANGED others

\* spinner.finish_and_clear(); let _ = tx.send(());
CancelWatchdog ==
    /\ Alive /\ pc = "cancel"
    /\ chan' = [chan EXCEPT ![cur.id].msg = TRUE,
                             ![cur.id].early = (wd[cur.id] = "waiting")]
    /\ clock' = 0
    /\ pc' = After("cancel")
    /\ UNCHANGED <<sandboxVars, execVars, callerVars, ncalls, wd, exitCode, exitedBy, cur,
                   lastResult, lastInvoke, events, entry, prevAfter, dry>>
    /\ spinner' = "cleared"
    /\ UNCHANGED others

StorageAfter ==
    /\ Alive /\ pc = "storage_after"
    /\ events' = Append(events, "storage_after")
    /\ \E o \in StorageFnOutcomes(cur) :
        IF o = "ok"
        THEN /\ cur' = [cur EXCEPT !.storage_after = GetStorageSnapshot]
             /\ prevAfter' = Some(GetStorageSnapshot)
             /\ pc' = After("storage_after")
             /\ UNCHANGED <<lastResult, lastInvoke, chan, entry>>
        ELSE /\ ReturnEarly(Err("ExecutionError", <<"storage_fn failed", "after">>))
             /\ chan' = [chan EXCEPT ![cur.id].txAlive = FALSE]
             /\ UNCHANGED prevAfter
    /\ UNCHANGED <<sandboxVars, execVars, callerVars, ncalls, wd, clock, exitCode, exitedBy, dry>>
    /\ UNCHANGED <<spinner, others>>

FormatResult ==
    /\ Alive /\ pc = "format"
    /\ LET f == FormatInvocationResult(cur.invocation_result) IN
        cur' = [cur EXCEPT !.display_result = f[1], !.record_result = f[2]]
    /\ events' = Append(events, "format")
    /\ pc' = After("format")
    /\ UNCHANGED <<sandboxVars, execVars, callerVars, wdVars, lastResult,
                   lastInvoke, entry, prevAfter, dry>>
    /\ UNCHANGED <<spinner, others>>

\* BudgetInspector::display and the memory summary.
EmitBudget ==
    /\ Alive /\ pc = "emit"
    /\ events' = Append(events, "budget")
    /\ pc' = After("emit")
    /\ UNCHANGED <<sandboxVars, execVars, callerVars, wdVars, cur, lastResult,
                   lastInvoke, entry, prevAfter, dry>>
    /\ UNCHANGED <<spinner, others>>

\* An end of invoke_function that hands out the record whatever the result.
InvokeReturnRecordAlways(c) ==
    Ok([display |-> IF c.display_result.ok THEN c.display_result.v ELSE <<>>,
        record |-> Record(c)])

\* display_result.map(|s| (s, record))
InvokeReturn(c) ==
    IF c.display_result.ok
    THEN Ok([display |-> c.display_result.v, record |-> Record(c)])
    ELSE c.display_result

\* An execute that ends by giving the executor a fresh sandbox.
ReturnRecordFreshSandbox ==
    /\ Alive /\ pc = "return"
    /\ LET ret == InvokeReturn(cur) IN
        /\ lastInvoke' = Some([host |-> cur.invocation_result, ret |-> ret])
        /\ IF ret.ok /\ cur.via = "execute"
           THEN /\ last_execution' = Some(ret.v.record)
                /\ lastResult' = Result("execute", Ok(ret.v.display))
                /\ UNCHANGED entry
           ELSE /\ UNCHANGED last_execution
                /\ lastResult' = Result(Op(cur), ret)
                /\ entry' = NoEntry
    /\ storage' = EmptyStorage
    /\ chan' = [chan EXCEPT ![cur.id].txAlive = FALSE]
    /\ pc' = "idle"
    /\ cur' = NoCall
    /\ UNCHANGED <<mock_registry, timeout_secs, dispatchers, callerVars, ncalls, wd,
                   clock, exitCode, exitedBy, events, prevAfter, dry>>
    /\ UNCHANGED <<spinner, others>>

\* The end of invoke_function and of execute: tx is dropped, and execute
\* stores the record if invoke_function returned one.
ReturnRecord ==
    /\ Alive /\ pc = "return"
    /\ LET ret == InvokeReturn(cur) IN
        /\ lastInvoke' = Some([host |-> cur.invocation_result, ret |-> ret])
        /\ IF ret.ok /\ cur.via = "execute"
           THEN /\ last_execution' = Some(ret.v.record)
                /\ lastResult' = Result("execute", Ok(ret.v.display))
                /\ UNCHANGED entry
           ELSE /\ UNCHANGED last_execution
                /\ lastResult' = Result(Op(cur), ret)
                /\ entry' = NoEntry
    /\ chan' = [chan EXCEPT ![cur.id].txAlive = FALSE]
    /\ pc' = "idle"
    /\ cur' = NoCall
    /\ UNCHANGED <<sandboxVars, timeout_secs, dispatchers, callerVars, ncalls, wd,
                   clock, exitCode, exitedBy, events, prevAfter, dry>>
    /\ UNCHANGED <<spinner, others>>

-----------------------------------------------------------------------------
(* The watchdog thread of invocation i: the closure passed to thread::spawn *)

threadFrame == <<pc, cur, storage, last_execution, timeout_secs, mock_registry,
                 dispatchers, snap, snapObs, ncalls, chan, clock, lastResult,
                 lastInvoke, events, entry, prevAfter, dry>>

\* recv_timeout returns Ok(()): the cancellation signal is in the channel.
WdRecvOk(i) ==
    /\ Alive /\ wd[i] = "waiting"
    /\ chan[i].msg
    /\ wd' = [wd EXCEPT ![i] = "done"]
    /\ UNCHANGED <<threadFrame, exitCode, exitedBy>>
    /\ UNCHANGED <<spinner, others>>

\* recv_timeout returns Err(Disconnected): the sender was dropped unsent.
WdDisconnected(i) ==
    /\ Alive /\ wd[i] = "waiting"
    /\ ~chan[i].msg /\ ~chan[i].txAlive
    /\ wd' = [wd EXCEPT ![i] = "done"]
    /\ UNCHANGED <<threadFrame, exitCode, exitedBy>>
    /\ UNCHANGED <<spinner, others>>

\* A watchdog that swallows the timeout: it ends without exiting the process.
WdTimeoutSilent(i) ==
    /\ Alive /\ wd[i] = "waiting"
    /\ ~chan[i].msg /\ chan[i].txAlive
    /\ clock >= chan[i].timeout
    /\ wd' = [wd EXCEPT ![i] = "done"]
    /\ UNCHANGED <<threadFrame, exitCode, exitedBy>>
    /\ UNCHANGED <<spinner, others>>

\* recv_timeout returns Err(Timeout): nothing arrived within timeout_secs.
WdTimeout(i) ==
    /\ Alive /\ wd[i] = "waiting"
    /\ ~chan[i].msg /\ chan[i].txAlive
    /\ clock >= chan[i].timeout
    /\ wd' = [wd EXCEPT ![i] = "timedout"]
    /\ UNCHANGED <<threadFrame, exitCode, exitedBy>>
    /\ UNCHANGED <<spinner, others>>

\* The code the process exits with from the Timeout arm.
WatchdogExit == Some(TimeoutExitCode)

\* tracing::error!(..); std::process::exit(124): the process ends where it
\* is, and the sandbox, the executor and the caller's values end with it.
WdExit(i) ==
    /\ Alive /\ wd[i] = "timedout"
    /\ exitCode' = WatchdogExit
    /\ exitedBy' = i
    /\ cur' = NoCall
    /\ storage' = EmptyStorage
    /\ last_execution' = None
    /\ mock_registry' = Registry({})
    /\ dispatchers' = [c \in ContractIds |-> "none"]
    /\ snap' = None
    /\ snapObs' = <<>>
    /\ lastResult' = Result("exit", Ok(<<>>))
    /\ lastInvoke' = None
    /\ events' = <<>>
    /\ entry' = NoEntry
    /\ prevAfter' = None
    /\ dry' = NoDry
    /\ UNCHANGED <<pc, timeout_secs, ncalls, wd, chan, clock>>
    /\ spinner' = "none"
    /\ UNCHANGED others

\* Time passes for the watchdog blocked in recv_timeout until timeout_secs
\* seconds have elapsed since its launch.  No step depends on the instants in
\* between, so they are passed in one step.
Tick ==
    /\ Alive
    /\ \E i \in Calls : Armed(i) /\ clock < chan[i].timeout /\ clock' = chan[i].timeout
    /\ UNCHANGED <<pc, cur, storage, last_execution, timeout_secs,
                   mock_registry, dispatchers, snap, snapObs, ncalls, wd, chan,
                   exitCode, exitedBy, lastResult, lastInvoke, events, entry, prevAfter, dry>>
    /\ UNCHANGED <<spinner, others>>

-----------------------------------------------------------------------------
(* loader::load_contract *)

coreVars == <<pc, cur, storage, last_execution, timeout_secs, mock_registry,
              dispatchers, snap, ncalls, wd, chan, clock, exitCode, exitedBy,
              lastResult, lastInvoke, events, entry, prevAfter, snapObs, dry,
              spinner>>

\* What dropping the ProgressGuard does to the bar: finish_and_clear.
GuardDropped(bar) == "cleared"

\* Lines 34-51: the bar is created and put under the guard.
LoadStart ==
    /\ Alive /\ pc = "idle"
    /\ load \in {"ok", "err"}
    /\ load' = "diagnostic"
    /\ pb' = "shown"
    /\ UNCHANGED <<coreVars, pureVars>>

\* Lines 53-58: set_diagnostic_level; its error returns through `?`.
LoadSetDiagnostic ==
    /\ Alive /\ pc = "idle"
    /\ load = "diagnostic"
    /\ \E ok \in BOOLEAN :
        IF ok THEN load' = "register" /\ UNCHANGED pb
              ELSE load' = "err" /\ pb' = GuardDropped(pb)
    /\ UNCHANGED <<coreVars, pureVars>>

\* Lines 60-78: register the contract, load the error catalogue (a failure
\* only warns), return Ok.
LoadRegister ==
    /\ Alive /\ pc = "idle"
    /\ load = "register"
    /\ load' = "ok"
    /\ pb' = GuardDropped(pb)
    /\ UNCHANGED <<coreVars, pureVars>>

-----------------------------------------------------------------------------
(* The other operations of ContractExecutor *)

SetTimeout(secs) ==
    /\ Alive /\ pc = "idle"
    /\ timeout_secs' = secs
    /\ lastResult' = Result("set_timeout", Ok(<<>>))
    /\ dry' = NoDry
    /\ UNCHANGED <<pc, cur, sandboxVars, last_execution, dispatchers, callerVars,
                   wdVars, lastInvoke, events, entry, prevAfter>>
    /\ UNCHANGED <<spinner, others>>

\* StorageSnapshot { storage: s.clone() }
TakeSnapshot(st) == [storage |-> st]

SnapshotStorage ==
    /\ Alive /\ pc = "idle"
    /\ snap' = Some(TakeSnapshot(storage))
    /\ snapObs' = GetStorageSnapshot
    /\ dry' = [stage |-> "snap", obs |-> Obs]
    /\ lastResult' = Result("snapshot_storage", Ok(<<>>))
    /\ UNCHANGED <<pc, cur, sandboxVars, execVars, wdVars, lastInvoke, events,
                   entry, prevAfter>>
    /\ UNCHANGED <<spinner, others>>

\* A restore that writes the snapshot's entries over the current storage and
\* keeps the keys the snapshot does not have.
RestoredMerged(current, snapshot) ==
    [k \in DOMAIN current \cup DOMAIN snapshot.storage |->
        IF k \in DOMAIN snapshot.storage THEN snapshot.storage[k] ELSE current[k]]

\* with_mut_storage(|s| { *s = snapshot.storage.clone(); Ok(()) })
RestoredStorage(current, snapshot) == snapshot.storage

RestoreStorage ==
    /\ Alive /\ pc = "idle"
    /\ snap.some
    /\ storage' = RestoredStorage(storage, snap.v)
    /\ prevAfter' = None
    /\ dry' = IF dry.stage = "exec" THEN [dry EXCEPT !.stage = "restored"] ELSE NoDry
    /\ lastResult' = Result("restore_storage", Ok(<<>>))
    /\ UNCHANGED <<pc, cur, mock_registry, execVars, callerVars, wdVars,
                   lastInvoke, events, entry>>
    /\ UNCHANGED <<spinner, others>>

\* The registry a dispatcher holds after the executor installed a registry
\* mocking `ids`: install_mock_dispatchers registers a dispatcher holding the
\* new registry for each of its ids; the others keep the one they have.
Installed(ids, c) ==
    IF c \in ids THEN "current"
    ELSE IF dispatchers[c] = "none" THEN "none" ELSE "stale"

\* What install_mock_dispatchers returns for the registry behind the lock.
install_mock_dispatchers(reg) ==
    IF ~Lock(reg).ok
    THEN Err("ExecutionError", <<"Mock registry lock poisoned">>)
    ELSE Ok(<<>>)

\* set_mock_registry (reached from set_mock_specs too).
SetMockRegistry(ids) ==
    /\ Alive /\ pc = "idle"
    /\ mock_registry' = Registry(ids)
    /\ dispatchers' = IF install_mock_dispatchers(Registry(ids)).ok
                      THEN [c \in ContractIds |-> Installed(ids, c)]
                      ELSE dispatchers
    /\ lastResult' = Result("set_mock_registry", install_mock_dispatchers(Registry(ids)))
    /\ dry' = NoDry
    /\ UNCHANGED <<pc, cur, storage, last_execution, timeout_secs, callerVars,
                   wdVars, lastInvoke, events, entry, prevAfter>>
    /\ UNCHANGED <<spinner, others>>

-----------------------------------------------------------------------------
(* Type names of a function signature (runtime/parser.rs)                   *)

\* A type name is a string, kept as the sequence of its characters.
Ident(c1, c2, c3) == <<c1, c2, c3>>

RECURSIVE Join(_)
\* types.join(",")
Join(types) ==
    IF types = <<>> THEN <<>>
    ELSE IF Len(types) = 1 THEN Head(types)
    ELSE Head(types) \o <<",">> \o Join(Tail(types))

\* name<arg,...>
Generic(name, types) == name \o <<"<">> \o Join(types) \o <<">">>

U32 == Ident("U", "3", "2")
VecU32 == Generic(Ident("V", "e", "c"), <<U32>>)
MapU32U32 == Generic(Ident("M", "a", "p"), <<U32, U32>>)
MapNested == Generic(Ident("M", "a", "p"), <<U32, MapU32U32>>)

TuplePrefix == <<"T", "u", "p", "l", "e", "<">>
OptionPrefix == <<"O", "p", "t", "i", "o", "n", "<">>

\* "Tuple<" + join(types, ",") + ">"
TupleOf(types) == TuplePrefix \o Join(types) \o <<">">>

OptionOf(type) == OptionPrefix \o type \o <<">">>

\* str::starts_with
StartsWith(s, prefix) ==
    Len(s) >= Len(prefix) /\ SubSeq(s, 1, Len(prefix)) = prefix

\* str::strip_prefix
StripPrefix(s, prefix) ==
    IF StartsWith(s, prefix) THEN Some(SubSeq(s, Len(prefix) + 1, Len(s)))
    ELSE None

\* str::strip_suffix('>')
StripSuffix(s, ch) ==
    IF s # <<>> /\ s[Len(s)] = ch THEN Some(SubSeq(s, 1, Len(s) - 1)) ELSE None

\* inner.trim().is_empty()
TrimIsEmpty(s) == \A i \in 1..Len(s) : s[i] = " "

\* A test that takes every comma for a separator, whatever its depth.
SeparatorAnyDepth(ch, depth) == ch = ","

\* ',' if depth == 0
Separator(ch, depth) == depth = 0 /\ ch = ","

\* '<' => depth += 1, '>' => depth = depth.saturating_sub(1)
NextDepth(ch, depth) ==
    IF ch = "<" THEN depth + 1
    ELSE IF ch = ">" THEN (IF depth > 0 THEN depth - 1 ELSE 0)
    ELSE depth

RECURSIVE CountTopLevel(_, _, _)
\* What the loop of tuple_arity_from_type_name over inner.chars() adds to
\* arity from character i on, entered there with `depth`.
CountTopLevel(inner, i, depth) ==
    IF i > Len(inner) THEN 0
    ELSE (IF Separator(inner[i], depth) THEN 1 ELSE 0)
         + CountTopLevel(inner, i + 1, NextDepth(inner[i], depth))

tuple_arity_from_type_name(type_name) ==
    LET rest == StripPrefix(type_name, TuplePrefix)
    IN IF ~rest.some THEN None
       ELSE LET inner == StripSuffix(rest.v, ">")
            IN IF ~inner.some THEN None
               ELSE IF TrimIsEmpty(inner.v) THEN Some(0)
               ELSE Some(1 + CountTopLevel(inner.v, 1, 0))

\* The element types the arity inputs are built from.
ElementTypes == {U32, VecU32, MapU32U32, MapNested}

MaxTupleLen == 3

TypeLists == UNION {[1..n -> ElementTypes] : n \in 0..MaxTupleLen}

\* Type names handed to tuple_arity_from_type_name: a tuple type built from a
\* list of element types, a tuple type whose inside is blank, a name that
\* does not start with Tuple<, and one that lacks the closing >.
ArityInputs ==
    {[kind |-> "tuple", types |-> ts, name |-> TupleOf(ts)] : ts \in TypeLists}
    \cup {[kind |-> "blank", types |-> <<>>, name |-> TuplePrefix \o b \o <<">">>] :
             b \in {<<>>, <<" ">>, <<" ", " ">>}}
    \cup {[kind |-> "noprefix", types |-> <<U32, U32>>, name |-> n] :
             n \in {U32, VecU32, <<"(">> \o Join(<<U32, U32>>) \o <<")">>,
                    <<"t">> \o Tail(TupleOf(<<U32, U32>>))}}
    \cup {[kind |-> "noclose", types |-> ts, name |-> TuplePrefix \o Join(ts)] :
             ts \in {<<>>, <<U32>>, <<U32, U32>>}}

NotComputed == [done |-> FALSE]
Computed(r) == [done |-> TRUE, res |-> r]

\* One call of tuple_arity_from_type_name.
TupleArity ==
    /\ ~arity_out.done
    /\ arity_out' = Computed(tuple_arity_from_type_name(arity_in.name))
    /\ UNCHANGED <<arity_in, normVars, evalVars, breakVars, coreVars, loaderVars,
                   toolVars>>

-----------------------------------------------------------------------------
(* JSON values and texts (serde_json)                                       *)

JNull == [t |-> "null"]
JNum(n) == [t |-> "number", n |-> n]
JStr(s) == [t |-> "string", s |-> s]
JArr(items) == [t |-> "array", items |-> items]
\* An object is a map from its keys to its members' values.
JObj(members) == [t |-> "object", members |-> members]

\* A JSON text: whether it parses, the value it parses to, and whether it is
\* the text serde_json writes for that value (no extra white space).
Text(value, canonical) == [valid |-> TRUE, canonical |-> canonical, value |-> value]
InvalidText == [valid |-> FALSE, canonical |-> FALSE, value |-> JNull]

\* serde_json::from_str
from_str(text) ==
    IF text.valid THEN Ok(text.value)
    ELSE Err("InvalidArguments", <<"Invalid JSON in --args: ">>)

\* serde_json::to_string
to_string(value) == Text(value, TRUE)

json_type_name(value) == value.t

is_typed_annotation(value) ==
    /\ value.t = "object"
    /\ "type" \in DOMAIN value.members
    /\ "value" \in DOMAIN value.members

OptionTag == <<"o", "p", "t", "i", "o", "n">>
TupleTag == <<"t", "u", "p", "l", "e">>

\* json!({ "type": "option", "value": arg })
OptionEnvelope(arg) == JObj([type |-> JStr(OptionTag), value |-> arg])

\* json!({ "type": "tuple", "arity": arity, "value": actual_arr })
TupleEnvelope(arity, arg) ==
    JObj([type |-> JStr(TupleTag), arity |-> JNum(arity), value |-> arg])

-----------------------------------------------------------------------------
(* normalize_args_for_function                                              *)

\* An Option branch that wraps whatever it is given.
OptionArgAlways(arg) == OptionEnvelope(arg)

\* The Option branch: wrap unless the argument is already an envelope.
OptionArg(arg) ==
    IF ~is_typed_annotation(arg) THEN OptionEnvelope(arg) ELSE arg

\* A Tuple branch that takes an array of any length.
TupleArgAnyLength(param, arg) ==
    LET arity == tuple_arity_from_type_name(param.type_name)
    IN IF ~arity.some
       THEN Err("InvalidArguments",
                <<"Invalid tuple type in function spec for argument '",
                  param.name, "'">>)
       ELSE IF arg.t # "array"
       THEN Err("InvalidArguments",
                <<"Argument '", param.name, "' expects tuple with ",
                  ToString(arity.v), " elements, got ", json_type_name(arg)>>)
       ELSE Ok(TupleEnvelope(arity.v, arg))

\* The Tuple branch: the arity of the type, an array of that length, then
\* the envelope.
TupleArg(param, arg) ==
    LET arity == tuple_arity_from_type_name(param.type_name)
    IN IF ~arity.some
       THEN Err("InvalidArguments",
                <<"Invalid tuple type in function spec for argument '",
                  param.name, "'">>)
       ELSE IF arg.t # "array"
       THEN Err("InvalidArguments",
                <<"Argument '", param.name, "' expects tuple with ",
                  ToString(arity.v), " elements, got ", json_type_name(arg)>>)
       ELSE IF Len(arg.items) # arity.v
       THEN Err("InvalidArguments",
                <<"Tuple ", "arity mismatch: expected ", ToString(arity.v),
                  ", got ", ToString(Len(arg.items))>>)
       ELSE Ok(TupleEnvelope(arity.v, arg))

\* Iterator::zip stops with the shorter of the two.
ZipLen(args, params) ==
    IF Len(args) <= Len(params) THEN Len(args) ELSE Len(params)

RECURSIVE NormalizeLoop(_, _, _)
\* for (arg, param) in args.iter_mut().zip(signature.params.iter())
NormalizeLoop(args, params, i) ==
    IF i > ZipLen(args, params) THEN Ok(args)
    ELSE IF StartsWith(params[i].type_name, OptionPrefix)
    THEN NormalizeLoop([args EXCEPT ![i] = OptionArg(args[i])], params, i + 1)
    ELSE IF StartsWith(params[i].type_name, TuplePrefix)
    THEN LET r == TupleArg(params[i], args[i])
         IN IF ~r.ok THEN r
            ELSE NormalizeLoop([args EXCEPT ![i] = r.v], params, i + 1)
    ELSE NormalizeLoop(args, params, i + 1)

\* A return that writes the parsed input out again.
Reserialized(args_json) ==
    IF args_json.valid THEN Ok(to_string(args_json.value)) ELSE Ok(args_json)

\* return Ok(args_json.to_string()): the input text itself.
NotNormalized(args_json) == Ok(args_json)

\* wasm: what parse_function_signatures(wasm_bytes) returns, an error or the
\* functions of the contract, each with its parameters.
normalize_args_for_function(wasm, function, args_json) ==
    IF ~wasm.ok THEN wasm
    ELSE IF function \notin DOMAIN wasm.v THEN NotNormalized(args_json)
    ELSE LET parsed == from_str(args_json)
         IN IF ~parsed.ok THEN parsed
            ELSE IF parsed.v.t # "array" THEN NotNormalized(args_json)
            ELSE LET r == NormalizeLoop(parsed.v.items, wasm.v[function], 1)
                 IN IF ~r.ok THEN r ELSE Ok(to_string(JArr(r.v)))

\* Parameter lists of the function `f` in the contract's spec.
Param(i, type_name) == [name |-> i, type_name |-> type_name]

Tuple2 == TupleOf(<<U32, U32>>)

ParamTypeLists ==
    {<<>>, <<U32>>, <<OptionOf(U32)>>, <<Tuple2>>,
     <<OptionOf(U32), Tuple2>>, <<U32, OptionOf(U32)>>,
     <<TuplePrefix \o U32>>, <<TupleOf(<<>>)>>}

ParamNames == <<"a", "b">>

\* The parameters of a function whose parameter types are ts.
Params(ts) == [i \in 1..Len(ts) |-> Param(ParamNames[i], ts[i])]

ParamLists == {Params(ts) : ts \in ParamTypeLists}

\* Contracts: `f` with one of the parameter lists and no other function, and
\* bytes that parse_function_signatures cannot read.
SignatureSets ==
    {Ok([f |-> ps]) : ps \in ParamLists}
    \cup {Err("WasmParse", <<"parse_function_signatures failed">>)}

NormFunctions == {"f", "g"}

\* Arguments a caller writes.
ArgValues ==
    {JNull, JNum(1), JArr(<<>>), JArr(<<JNum(1), JNum(2)>>),
     JArr(<<JNum(1), JNum(2), JNum(3)>>),
     OptionEnvelope(JNull), JObj([type |-> JStr(OptionTag)]),
     TupleEnvelope(2, JArr(<<JNum(1), JNum(2)>>))}

MaxArgs == 2

ArgArrays == UNION {[1..n -> ArgValues] : n \in 0..MaxArgs}

\* --args texts: arrays, a top-level value that is no array, and a text that
\* is not JSON; each value both as serde_json writes it and with white space.
ArgTexts ==
    {Text(v, c) : v \in {JArr(a) : a \in ArgArrays} \cup {JNum(1), OptionEnvelope(JNull)},
                  c \in BOOLEAN}
    \cup {InvalidText}

NormInputs ==
    {[signatures |-> s, function |-> fn, args_json |-> a] :
        s \in SignatureSets, fn \in NormFunctions, a \in ArgTexts}

\* normalize_args_for_function on the caller's input.
NormalizeArgs ==
    /\ ~norm_out.done
    /\ norm_out' = Computed(normalize_args_for_function(
                       norm_in.signatures, norm_in.function, norm_in.args_json))
    /\ UNCHANGED <<norm_in, norm_again, arityVars, evalVars, breakVars, coreVars,
                   loaderVars, toolVars>>

\* normalize_args_for_function on the text the first call returned.
NormalizeOutput ==
    /\ norm_out.done /\ norm_out.res.ok
    /\ ~norm_again.done
    /\ norm_again' = Computed(normalize_args_for_function(
                         norm_in.signatures, norm_in.function, norm_out.res.v))
    /\ UNCHANGED <<norm_in, norm_out, arityVars, evalVars, breakVars, coreVars,
                   loaderVars, toolVars>>

-----------------------------------------------------------------------------
(* Conditional breakpoints (debugger/breakpoint.rs)                         *)

\* enum Operator
Operators == {"Eq", "Ne", "Gt", "Lt", "Ge", "Le"}

Digits == <<"0", "1", "2", "3", "4", "5", "6", "7", "8", "9">>

IsDigit(ch) == \E d \in 1..10 : Digits[d] = ch

DigitValue(ch) == (CHOOSE d \in 1..10 : Digits[d] = ch) - 1

RECURSIVE DigitsValue(_, _)
\* The number the first n characters of a string of digits write.
DigitsValue(s, n) ==
    IF n = 0 THEN 0 ELSE 10 * DigitsValue(s, n - 1) + DigitValue(s[n])

\* str::parse::<i128>: an optional sign, then one digit at least and digits
\* only.  The strings of the model are far from the ends of i128.
ParseI128(s) ==
    LET signed == s # <<>> /\ s[1] \in {"+", "-"}
        digits == IF signed THEN Tail(s) ELSE s
    IN IF digits = <<>> \/ \E i \in 1..Len(digits) : ~IsDigit(digits[i])
       THEN None
       ELSE IF signed /\ s[1] = "-"
       THEN Some(0 - DigitsValue(digits, Len(digits)))
       ELSE Some(DigitsValue(digits, Len(digits)))

\* The byte of a character, for the characters the model's strings use.
Byte(ch) ==
    IF IsDigit(ch) THEN 48 + DigitValue(ch)
    ELSE CASE ch = " " -> 32
           [] ch = "+" -> 43
           [] ch = "-" -> 45
           [] ch = "N" -> 78
           [] ch = "a" -> 97
           [] ch = "e" -> 101
           [] ch = "f" -> 102
           [] ch = "l" -> 108
           [] ch = "p" -> 112
           [] ch = "r" -> 114
           [] ch = "s" -> 115
           [] ch = "t" -> 116
           [] ch = "u" -> 117

RECURSIVE StrLess(_, _)
\* a < b for str: the order of the bytes, a proper prefix first.
StrLess(a, b) ==
    IF b = <<>> THEN FALSE
    ELSE IF a = <<>> THEN TRUE
    ELSE IF Head(a) # Head(b) THEN Byte(Head(a)) < Byte(Head(b))
    ELSE StrLess(Tail(a), Tail(b))

\* The match on op, for operands that have == and <.
Holds(op, eq, lt) ==
    CASE op = "Eq" -> eq
      [] op = "Ne" -> ~eq
      [] op = "Gt" -> ~lt /\ ~eq
      [] op = "Lt" -> lt
      [] op = "Ge" -> ~lt
      [] op = "Le" -> lt \/ eq

\* A comparison that holds for numbers only.
compare_numbers_only(actual, expected, op) ==
    LET a == ParseI128(actual)
        e == ParseI128(expected)
    IN a.some /\ e.some /\ Holds(op, a.v = e.v, a.v < e.v)

\* A comparison that always takes its operands for strings.
compare_as_strings(actual, expected, op) ==
    Holds(op, actual = expected, StrLess(actual, expected))

compare_values(actual, expected, op) ==
    LET a == ParseI128(actual)
        e == ParseI128(expected)
    IN IF a.some /\ e.some
       THEN Holds(op, a.v = e.v, a.v < e.v)
       ELSE Holds(op, actual = expected, StrLess(actual, expected))

JBool(b) == [t |-> "bool", b |-> b]

RECURSIVE NatToString(_)
NatToString(n) ==
    IF n < 10 THEN <<Digits[n + 1]>>
    ELSE NatToString(n \div 10) \o <<Digits[(n % 10) + 1]>>

\* Number::to_string for an integer
NumberToString(n) == IF n < 0 THEN <<"-">> \o NatToString(0 - n) ELSE NatToString(n)

\* The text evaluate_condition compares for a member of the arguments: a
\* string as it is, a number or a boolean written out, anything else in its
\* Debug form (Null for null).
ActualStr(actual_val) ==
    CASE actual_val.t = "string" -> actual_val.s
      [] actual_val.t = "number" -> NumberToString(actual_val.n)
      [] actual_val.t = "bool" ->
            IF actual_val.b THEN <<"t", "r", "u", "e">>
            ELSE <<"f", "a", "l", "s", "e">>
      [] actual_val.t = "null" -> <<"N", "u", "l", "l">>

\* Value::get(name): a member of an object, nothing for any other value.
ValueGet(v, name) ==
    IF v.t = "object" /\ name \in DOMAIN v.members THEN Some(v.members[name])
    ELSE None

\* An evaluation that takes a missing subject for the empty string.
evaluate_missing_as_empty(condition, storage_map, args_json) ==
    IF condition.kind = "Storage"
    THEN compare_values(IF storage_map[condition.key].some THEN storage_map[condition.key].v
                        ELSE <<>>,
                        condition.value, condition.operator)
    ELSE LET v == IF args_json.some THEN from_str(args_json.v) ELSE Err("none", <<>>)
             m == IF v.ok THEN ValueGet(v.v, condition.name) ELSE None
         IN compare_values(IF m.some THEN ActualStr(m.v) ELSE <<>>,
                           condition.value, condition.operator)

\* storage: each key's value, if the key is there; args_json: Option<&str>.
evaluate_condition(condition, storage_map, args_json) ==
    IF condition.kind = "Storage"
    THEN IF storage_map[condition.key].some
         THEN compare_values(storage_map[condition.key].v, condition.value,
                             condition.operator)
         ELSE FALSE
    ELSE IF ~args_json.some THEN FALSE
    ELSE LET v == from_str(args_json.v)
         IN IF ~v.ok THEN FALSE
            ELSE LET actual_val == ValueGet(v.v, condition.name)
                 IN IF ~actual_val.some THEN FALSE
                    ELSE compare_values(ActualStr(actual_val.v), condition.value,
                                        condition.operator)

\* Condition::Storage and Condition::Argument
StorageCondition(key, operator, value) ==
    [kind |-> "Storage", key |-> key, operator |-> operator, value |-> value]
ArgumentCondition(name, operator, value) ==
    [kind |-> "Argument", name |-> name, operator |-> operator, value |-> value]

\* Strings that are compared, each with the number it writes, if any.
Str(s, n) == [s |-> s, n |-> n]

Ten == <<"1", "0">>
Nine == <<"9">>
Apple == <<"a", "p", "p", "l", "e">>

CmpStrings ==
    {Str(Ten, Some(10)), Str(Nine, Some(9)), Str(<<"-", "1">>, Some(0 - 1)),
     Str(<<"+", "9">>, Some(9)), Str(<<"0", "9">>, Some(9)),
     Str(<<"a">>, None), Str(<<"9", "a">>, None), Str(<<>>, None),
     Str(<<"-">>, None), Str(<<" ", "9">>, None)}

StorageKeys == {"counter"}

\* Storages of the condition inputs: `counter` absent or holding a string.
CondStorages ==
    {[k \in StorageKeys |-> None]}
    \cup {[k \in StorageKeys |-> IF k = "counter" THEN Some(a.s) ELSE None] :
             a \in CmpStrings}

\* The argument documents: none, a text that is not JSON, documents that
\* are no object, an object without the member, objects with it.
ArgsDocs ==
    {None, Some(InvalidText),
     Some(Text(JArr(<<JNum(10)>>), TRUE)), Some(Text(JNum(10), TRUE)),
     Some(Text(JObj([other |-> JNum(10)]), TRUE))}
    \cup {Some(Text(JObj([amount |-> m]), TRUE)) :
             m \in {JNum(10), JNum(9), JNum(0 - 1), JStr(<<"a">>), JStr(Ten),
                    JBool(TRUE), JNull}}

\* The number a compared string writes, if it writes one.
NumberOf(s) == (CHOOSE x \in CmpStrings : x.s = s).n

\* What an evaluation is given: the condition, the storage, the arguments.
EvalInputs ==
    {[condition |-> StorageCondition("counter", op, e.s), storage |-> st,
      args_json |-> None] :
        op \in Operators, e \in CmpStrings, st \in CondStorages}
    \cup {[condition |-> ArgumentCondition("amount", op, e.s),
           storage |-> [k \in StorageKeys |-> None],
           args_json |-> d] :
        op \in Operators, e \in {Str(Ten, Some(10)), Str(<<"a">>, None)},
        d \in ArgsDocs}

\* One call of evaluate_condition.
EvaluateCondition ==
    /\ ~eval_out.done
    /\ eval_out' = Computed(evaluate_condition(eval_in.condition, eval_in.storage,
                                               eval_in.args_json))
    /\ UNCHANGED <<eval_in, arityVars, normVars, breakVars, coreVars, loaderVars,
                   toolVars>>

-----------------------------------------------------------------------------
(* BreakpointManager *)

BpFunctions == {"f", "g"}

\* Breakpoint { function, condition }
Breakpoint(function, condition) == [function |-> function, condition |-> condition]

\* HashMap::new(): no function has an entry.
NoBreakpoints == [fn \in BpFunctions |-> None]

\* An insert that leaves an entry that is already there as it is.
InsertedIfAbsent(map, key, value) ==
    IF map[key].some THEN map ELSE [map EXCEPT ![key] = Some(value)]

\* HashMap::insert
Inserted(map, key, value) == [map EXCEPT ![key] = Some(value)]

\* HashMap::remove
Removed(map, key) == [map EXCEPT ![key] = None]

\* list(): the values of the map
list == {breakpoints[fn].v : fn \in {g \in BpFunctions : breakpoints[g].some}}

\* count(): HashMap::len
count == Cardinality({fn \in BpFunctions : breakpoints[fn].some})

\* is_empty(): HashMap::is_empty
is_empty == \A fn \in BpFunctions : ~breakpoints[fn].some

\* A test that breaks as soon as any function has an unconditional
\* breakpoint.
should_break_any(map, function, storage_map, args_json) ==
    \/ \E fn \in BpFunctions : map[fn].some /\ ~map[fn].v.condition.some
    \/ /\ map[function].some
       /\ map[function].v.condition.some
       /\ evaluate_condition(map[function].v.condition.v, storage_map, args_json)

should_break(map, function, storage_map, args_json) ==
    IF map[function].some
    THEN IF map[function].v.condition.some
         THEN evaluate_condition(map[function].v.condition.v, storage_map, args_json)
         ELSE TRUE
    ELSE FALSE

\* The conditions a caller sets, and none.
BpConditions ==
    {None, Some(StorageCondition("counter", "Ge", Ten)),
     Some(StorageCondition("counter", "Ne", Ten)),
     Some(ArgumentCondition("amount", "Eq", Ten))}

\* The storages and arguments should_break is asked with.
BpStorages ==
    {[k \in StorageKeys |-> v] : v \in {None, Some(Ten), Some(Nine), Some(Apple)}}
BpArgs == {None, Some(Text(JObj([amount |-> JNum(10)]), TRUE)),
           Some(Text(JObj([amount |-> JNum(9)]), TRUE))}

\* The last call of the manager: what it was, what the map was before it
\* and what it returned (unit for add and clear).
Call(op, function, condition, storage_map, args_json, before, ret) ==
    [op |-> op, function |-> function, condition |-> condition,
     storage |-> storage_map, args_json |-> args_json, before |-> before, ret |-> ret]

NoBpCall ==
    Call("new", "", None, [k \in StorageKeys |-> None], None, NoBreakpoints, FALSE)

Add(function, condition) ==
    /\ breakpoints' = Inserted(breakpoints, function, Breakpoint(function, condition))
    /\ bp_names' = bp_names \cup {function}
    /\ bp_last' = Call("add", function, condition, [k \in StorageKeys |-> None],
                       None, breakpoints, FALSE)
    /\ UNCHANGED <<arityVars, normVars, evalVars, coreVars, loaderVars,
                   toolVars>>

Remove(function) ==
    /\ breakpoints' = Removed(breakpoints, function)
    /\ bp_names' = bp_names \ {function}
    /\ bp_last' = Call("remove", function, None, [k \in StorageKeys |-> None],
                       None, breakpoints, breakpoints[function].some)
    /\ UNCHANGED <<arityVars, normVars, evalVars, coreVars, loaderVars,
                   toolVars>>

ShouldBreak(function, storage_map, args_json) ==
    /\ bp_last' = Call("should_break", function, None, storage_map, args_json,
                       breakpoints,
                       should_break(breakpoints, function, storage_map, args_json))
    /\ UNCHANGED <<breakpoints, bp_names>>
    /\ UNCHANGED <<arityVars, normVars, evalVars, coreVars, loaderVars,
                   toolVars>>

Clear ==
    /\ breakpoints' = NoBreakpoints
    /\ bp_names' = {}
    /\ bp_last' = Call("clear", "", None, [k \in StorageKeys |-> None], None,
                       breakpoints, FALSE)
    /\ UNCHANGED <<arityVars, normVars, evalVars, coreVars, loaderVars,
                   toolVars>>

-----------------------------------------------------------------------------
(* Condition strings: parse_condition and Display (debugger/breakpoint.rs)  *)

\* impl Display for Operator
OperatorText(op) ==
    CASE op = "Eq" -> <<"=", "=">>
      [] op = "Ne" -> <<"!", "=">>
      [] op = "Gt" -> <<">">>
      [] op = "Lt" -> <<"<">>
      [] op = "Ge" -> <<">", "=">>
      [] op = "Le" -> <<"<", "=">>

StoragePrefix == <<"s", "t", "o", "r", "a", "g", "e", "[">>

\* impl Display for Condition: "storage[{}] {} {}" and "{} {} {}"
Display(condition) ==
    IF condition.kind = "Storage"
    THEN StoragePrefix \o condition.key \o <<"]", " ">>
         \o OperatorText(condition.operator) \o <<" ">> \o condition.value
    ELSE condition.name \o <<" ">> \o OperatorText(condition.operator)
         \o <<" ">> \o condition.value

\* The places where pat occurs in s.
Occurrences(s, pat) ==
    {i \in 1..Len(s) : i + Len(pat) - 1 <= Len(s)
                       /\ SubSeq(s, i, i + Len(pat) - 1) = pat}

\* str::find: the first place, counted from 1; 0 for None.
Find(s, pat) ==
    IF Occurrences(s, pat) = {} THEN 0
    ELSE CHOOSE i \in Occurrences(s, pat) : \A j \in Occurrences(s, pat) : i <= j

\* str::trim
Trim(s) ==
    LET inked == {i \in 1..Len(s) : s[i] # " "}
    IN IF inked = {} THEN <<>>
       ELSE SubSeq(s, CHOOSE i \in inked : \A j \in inked : i <= j,
                      CHOOSE i \in inked : \A j \in inked : j <= i)

\* The order in which split_op_value and find_operator try the operators.
OperatorOrder == <<"Ge", "Le", "Eq", "Ne", "Gt", "Lt">>

\* The operators, in the order of `ops`, that have a place in s.
Found(s) == SelectSeq(OperatorOrder, LAMBDA op : Find(s, OperatorText(op)) # 0)

\* A find_operator that tries the one-character operators first.
find_operator_short_first(s) ==
    LET found == SelectSeq(<<"Gt", "Lt", "Ge", "Le", "Eq", "Ne">>,
                           LAMBDA op : Find(s, OperatorText(op)) # 0)
    IN IF found = <<>> THEN None ELSE Some(Head(found))

\* find_operator: the first operator of `ops` that occurs in s.
find_operator(s) == IF Found(s) = <<>> THEN None ELSE Some(Head(Found(s)))

\* split_op_value: the operator s starts with, split_op_value's own order
\* being ==, !=, >=, <=, >, <, and the trimmed rest.
split_op_value(s) ==
    LET starts == SelectSeq(<<"Eq", "Ne", "Ge", "Le", "Gt", "Lt">>,
                            LAMBDA op : StartsWith(s, OperatorText(op)))
    IN IF starts = <<>>
       THEN Err("String", <<"Invalid operator in condition: ">>)
       ELSE Ok([op |-> Head(starts),
                value |-> Trim(SubSeq(s, Len(OperatorText(Head(starts))) + 1,
                                      Len(s)))])

parse_condition(s) ==
    IF StartsWith(s, StoragePrefix)
    THEN LET end_bracket == Find(s, <<"]">>)
         IN IF end_bracket = 0
            THEN Err("String", <<"Missing closed bracket ']' in storage condition">>)
            ELSE LET r == split_op_value(Trim(SubSeq(s, end_bracket + 1, Len(s))))
                 IN IF ~r.ok THEN r
                    ELSE Ok(StorageCondition(SubSeq(s, 9, end_bracket - 1),
                                             r.v.op, r.v.value))
    ELSE LET op == find_operator(s)
         IN IF ~op.some
            THEN Err("String", <<"No operator found (use ==, !=, >, <, >=, <=)">>)
            ELSE LET op_pos == Find(s, OperatorText(op.v))
                 IN Ok(ArgumentCondition(
                       Trim(SubSeq(s, 1, op_pos - 1)), op.v,
                       Trim(SubSeq(s, op_pos + Len(OperatorText(op.v)), Len(s)))))

\* The condition strings a user types: a subject, an operator or none, and
\* a value, with or without spaces between them and before them.
Subjects ==
    {StoragePrefix \o <<"k", "]">>, StoragePrefix \o <<" ", "k", " ", "]">>,
     StoragePrefix \o <<"a", " ", "b", "]">>, StoragePrefix \o <<"k">>,
     <<"n">>, <<"a", " ", "b">>, <<"a", ">", "b">>}

OperatorInputs == {OperatorText(op) : op \in Operators} \cup {<<>>, <<"=">>}

ValueInputs == {<<"5">>, <<>>, <<"a", ">", "b">>, <<"=", "5">>, <<"a", " ", "b">>}

Spaces == {<<>>, <<" ">>}

ConditionInputs ==
    {lead \o subject \o gap \o op \o gap \o value :
        lead \in Spaces, subject \in Subjects, gap \in Spaces,
        op \in OperatorInputs, value \in ValueInputs}

\* parse_condition on the user's string.
ParseCondition ==
    /\ ~cond_out.done
    /\ cond_out' = Computed(parse_condition(cond_in))
    /\ UNCHANGED <<cond_in, cond_again, upVars, arityVars, normVars, evalVars,
                   breakVars, coreVars, loaderVars, procVars, oracleVars>>

\* The parsed condition is written with Display and the text is parsed.
ParseDisplayed ==
    /\ cond_out.done /\ cond_out.res.ok
    /\ ~cond_again.done
    /\ cond_again' = Computed(parse_condition(Display(cond_out.res.v)))
    /\ UNCHANGED <<cond_in, cond_out, upVars, arityVars, normVars, evalVars,
                   breakVars, coreVars, loaderVars, procVars, oracleVars>>

-----------------------------------------------------------------------------
(* Upgrade compatibility analyser (analyzer/upgrade.rs)                     *)

\* The WasmType values the model's signatures use.
WasmTypes == {"i32", "i64"}

FunctionSignature(name, params, results) ==
    [name |-> name, params |-> params, results |-> results]

\* enum BreakingChange, enum NonBreakingChange
FunctionRemoved(name) == [type |-> "FunctionRemoved", name |-> name]
ParameterCountChanged(name, old_count, new_count) ==
    [type |-> "ParameterCountChanged", name |-> name,
     old_count |-> old_count, new_count |-> new_count]
ParameterTypeChanged(name, index, old_type, new_type) ==
    [type |-> "ParameterTypeChanged", name |-> name, index |-> index,
     old_type |-> old_type, new_type |-> new_type]
ReturnTypeChanged(name, old_types, new_types) ==
    [type |-> "ReturnTypeChanged", name |-> name,
     old_types |-> old_types, new_types |-> new_types]
FunctionAdded(name) == [type |-> "FunctionAdded", name |-> name]

\* new_map.get(name): collect() inserts the signatures in order, so of two
\* with one name the later one stays.
MapGet(sigs, name) ==
    LET at == {i \in 1..Len(sigs) : sigs[i].name = name}
    IN IF at = {} THEN None
       ELSE Some(sigs[CHOOSE i \in at : \A j \in at : j <= i])

\* Parameter checks that compare the types also when the counts differ.
ParameterChangesZipped(old_sig, new_sig) ==
    LET both == IF Len(old_sig.params) <= Len(new_sig.params)
                THEN Len(old_sig.params) ELSE Len(new_sig.params)
        places == SelectSeq([i \in 1..both |-> i],
                            LAMBDA i : old_sig.params[i] # new_sig.params[i])
    IN (IF Len(old_sig.params) # Len(new_sig.params)
        THEN <<ParameterCountChanged(old_sig.name, Len(old_sig.params),
                                     Len(new_sig.params))>>
        ELSE <<>>)
       \o [k \in 1..Len(places) |->
              ParameterTypeChanged(old_sig.name, places[k] - 1,
                                   old_sig.params[places[k]],
                                   new_sig.params[places[k]])]

\* The parameter checks of one old function against its new signature.
ParameterChanges(old_sig, new_sig) ==
    IF Len(old_sig.params) # Len(new_sig.params)
    THEN <<ParameterCountChanged(old_sig.name, Len(old_sig.params),
                                 Len(new_sig.params))>>
    ELSE LET places == SelectSeq([i \in 1..Len(old_sig.params) |-> i],
                                 LAMBDA i : old_sig.params[i] # new_sig.params[i])
         IN [k \in 1..Len(places) |->
                ParameterTypeChanged(old_sig.name, places[k] - 1,
                                     old_sig.params[places[k]],
                                     new_sig.params[places[k]])]

\* A return-type check that reports every function that returns something.
ReturnChangesOfResults(old_sig, new_sig) ==
    IF old_sig.results # <<>>
    THEN <<ReturnTypeChanged(old_sig.name, old_sig.results, new_sig.results)>>
    ELSE <<>>

\* The return-type check.
ReturnChanges(old_sig, new_sig) ==
    IF old_sig.results # new_sig.results
    THEN <<ReturnTypeChanged(old_sig.name, old_sig.results, new_sig.results)>>
    ELSE <<>>

\* A pass that checks the return types before the parameters.
ChangesReturnFirst(old_sig, new) ==
    LET new_sig == MapGet(new, old_sig.name)
    IN IF ~new_sig.some THEN <<FunctionRemoved(old_sig.name)>>
       ELSE ReturnChanges(old_sig, new_sig.v) \o ParameterChanges(old_sig, new_sig.v)

\* What one pass of `for old_sig in old` pushes onto breaking.
ChangesOf(old_sig, new) ==
    LET new_sig == MapGet(new, old_sig.name)
    IN IF ~new_sig.some THEN <<FunctionRemoved(old_sig.name)>>
       ELSE ParameterChanges(old_sig, new_sig.v) \o ReturnChanges(old_sig, new_sig.v)

RECURSIVE Breaking(_, _)
\* The first loop of diff_signatures.
Breaking(old, new) ==
    IF old = <<>> THEN <<>>
    ELSE ChangesOf(Head(old), new) \o Breaking(Tail(old), new)

\* A second loop that takes every new function for an added one.
NonBreakingAll(old, new) == [k \in 1..Len(new) |-> FunctionAdded(new[k].name)]

\* The second loop: the new functions whose name is not in old_names.
NonBreaking(old, new) ==
    LET added == SelectSeq(new, LAMBDA s :
                     s.name \notin {old[i].name : i \in 1..Len(old)})
    IN [k \in 1..Len(added) |-> FunctionAdded(added[k].name)]

diff_signatures(old, new) ==
    [breaking |-> Breaking(old, new), non_breaking |-> NonBreaking(old, new)]

\* A compatibility that looks at the signatures only.
IsCompatibleSignatures(breaking_changes, execution_diffs) ==
    breaking_changes = <<>>

\* is_compatible of analyze
IsCompatible(breaking_changes, execution_diffs) ==
    /\ breaking_changes = <<>>
    /\ ~\E i \in 1..Len(execution_diffs) : ~execution_diffs[i].outputs_match

\* old_wasm, new_wasm: what parse_function_signatures returns for the bytes.
analyze(old_wasm, new_wasm, execution_diffs) ==
    IF ~old_wasm.ok THEN old_wasm
    ELSE IF ~new_wasm.ok THEN new_wasm
    ELSE LET d == diff_signatures(old_wasm.v, new_wasm.v)
         IN Ok([is_compatible |-> IsCompatible(d.breaking, execution_diffs),
                old_wasm_path |-> "old.wasm",
                new_wasm_path |-> "new.wasm",
                breaking_changes |-> d.breaking,
                non_breaking_changes |-> d.non_breaking,
                old_functions |-> old_wasm.v,
                new_functions |-> new_wasm.v,
                execution_diffs |-> execution_diffs])

MaxFunctions == 2
MaxParams == 2

FunctionNames == {"foo", "bar", "baz"}

\* The signatures of the model: no parameter or one, no result or one.
Signatures ==
    {FunctionSignature(n, p, r) :
        n \in FunctionNames,
        p \in {<<>>, <<"i32">>, <<"i64">>}, r \in {<<>>}}
    \cup {FunctionSignature(n, <<>>, <<"i64">>) : n \in FunctionNames}

\* What parse_function_signatures yields for a binary: its exported
\* functions, each name once, or an error for bytes it cannot read.
Binaries ==
    {Ok(l) : l \in {l \in UNION {[1..n -> Signatures] : n \in 0..MaxFunctions} :
                      \A i, j \in 1..Len(l) : i # j => l[i].name # l[j].name}}
    \cup {Err("WasmParse", <<"parse_function_signatures failed">>)}

ExecutionDiff(outputs_match) ==
    [function |-> "foo", args |-> "[]", old_result |-> "1",
     new_result |-> IF outputs_match THEN "1" ELSE "2",
     outputs_match |-> outputs_match]

ExecutionDiffLists ==
    {<<>>, <<ExecutionDiff(TRUE)>>, <<ExecutionDiff(TRUE), ExecutionDiff(FALSE)>>}

UpgradeInputs ==
    {[old_wasm |-> o, new_wasm |-> n, execution_diffs |-> d] :
        o \in Binaries, n \in Binaries, d \in ExecutionDiffLists}

\* Binaries of at most one function, with up to MaxParams parameters.
ParameterLists == UNION {[1..n -> WasmTypes] : n \in 0..MaxParams}
WideSignatures ==
    {FunctionSignature(n, p, r) :
        n \in {"foo", "bar"}, p \in ParameterLists, r \in {<<>>, <<"i64">>}}
WideBinaries == {Ok(<<>>)} \cup {Ok(<<sig>>) : sig \in WideSignatures}
SignatureInputs ==
    {[old_wasm |-> o, new_wasm |-> n, execution_diffs |-> <<>>] :
        o \in WideBinaries, n \in WideBinaries}

\* analyze(old, new)
Analyze ==
    /\ ~up_out.done
    /\ up_out' = Computed(analyze(up_in.old_wasm, up_in.new_wasm,
                                  up_in.execution_diffs))
    /\ UNCHANGED <<up_in, up_back, condVars, arityVars, normVars, evalVars,
                   breakVars, coreVars, loaderVars, procVars, oracleVars>>

\* analyze(new, old): the same two binaries the other way round.
AnalyzeBack ==
    /\ ~up_back.done
    /\ up_back' = Computed(analyze(up_in.new_wasm, up_in.old_wasm,
                                   up_in.execution_diffs))
    /\ UNCHANGED <<up_in, up_out, condVars, arityVars, normVars, evalVars,
                   breakVars, coreVars, loaderVars, procVars, oracleVars>>

-----------------------------------------------------------------------------
(* Two executors in one process *)

Executors == {1, 2}
HostCells == Executors
RegistryCells == 1..MaxRegistries
Binary == {"a.wasm", "b.wasm"}

\* An allocation that hands out one process-wide cell.
SharedCell(heap) == CHOOSE i \in DOMAIN heap : \A j \in DOMAIN heap : i <= j

\* The first cell of a heap that holds nothing: a new allocation.
FreshCell(heap) ==
    CHOOSE i \in DOMAIN heap :
        ~heap[i].some /\ \A j \in DOMAIN heap : j < i => heap[j].some

HasRoom(heap) == \E i \in DOMAIN heap : ~heap[i].some

\* What the accessors of the executor in hand e return.
ObsOf(e) ==
    LET x == executors[e].v
        reg == registries[x.mock_registry].v
    IN [storage |-> CaptureSnapshot(hosts[x.env].v.storage),
        last_execution |-> x.last_execution,
        mock_log |-> IF Lock(reg).ok THEN Lock(reg).v.calls ELSE <<>>]

\* ContractExecutor::new(wasm): load_contract makes a sandbox with
\* Env::default(), and the executor gets a registry cell of its own.
NewExecutor(e, wasm) ==
    /\ ~executors[e].some
    /\ HasRoom(hosts) /\ HasRoom(registries)
    /\ hosts' = [hosts EXCEPT ![FreshCell(hosts)] =
                     Some([storage |-> EmptyStorage,
                           dispatchers |-> [c \in ContractIds |-> 0]])]
    /\ registries' = [registries EXCEPT ![FreshCell(registries)] = Some(Registry({}))]
    /\ executors' = [executors EXCEPT ![e] =
                         Some([env |-> FreshCell(hosts),
                               mock_registry |-> FreshCell(registries),
                               last_execution |-> None,
                               wasm_bytes |-> wasm])]
    /\ actor' = e
    /\ UNCHANGED <<coreVars, loaderVars, arityVars, normVars, evalVars, breakVars,
                   condVars, upVars, oracleVars>>

\* The contracts of a sandbox that have a dispatcher registered.
MockedIn(env) == {c \in ContractIds : hosts[env].v.dispatchers[c] # 0}

\* executor.execute(function, None) as one step: a function that is not
\* exported is rejected; otherwise the guest runs in the executor's sandbox,
\* may call one mocked contract, whose dispatcher logs to the registry it
\* holds, and last_execution is assigned when the invocation succeeded.
ExecuteOn(e, function) ==
    /\ executors[e].some
    /\ LET x == executors[e].v
       IN IF function \notin Exported
          THEN UNCHANGED <<hosts, registries, executors>>
          ELSE \E st \in Storages, ok \in BOOLEAN,
                  m \in {<<>>} \cup {<<c>> : c \in MockedIn(x.env)} :
                /\ hosts' = [hosts EXCEPT ![x.env].v.storage = st]
                /\ registries' =
                       IF m # <<>>
                          /\ Len(registries[hosts[x.env].v.dispatchers[m[1]]].v.calls)
                                 < MaxCalls
                       THEN [registries EXCEPT
                                ![hosts[x.env].v.dispatchers[m[1]]].v.calls =
                                    Append(@, [contract_id |-> m[1],
                                               function |-> "mocked"])]
                       ELSE registries
                /\ executors' =
                       IF ok
                       THEN [executors EXCEPT ![e].v.last_execution =
                                Some([function |-> function, storage_after |-> st])]
                       ELSE executors
    /\ actor' = e
    /\ UNCHANGED <<coreVars, loaderVars, arityVars, normVars, evalVars, breakVars,
                   condVars, upVars, oracleVars>>

\* executor.restore_storage(&snapshot)
RestoreStorageOn(e, snapshot) ==
    /\ executors[e].some
    /\ hosts' = [hosts EXCEPT ![executors[e].v.env].v.storage = snapshot]
    /\ actor' = e
    /\ UNCHANGED <<registries, executors>>
    /\ UNCHANGED <<coreVars, loaderVars, arityVars, normVars, evalVars, breakVars,
                   condVars, upVars, oracleVars>>

\* executor.set_mock_registry(registry): the registry goes into a new cell,
\* and a dispatcher holding that cell is registered in the executor's sandbox
\* for each contract id it mocks.
SetMockRegistryOn(e, ids) ==
    /\ executors[e].some
    /\ HasRoom(registries)
    /\ registries' = [registries EXCEPT ![FreshCell(registries)] = Some(Registry(ids))]
    /\ executors' = [executors EXCEPT ![e].v.mock_registry = FreshCell(registries)]
    /\ hosts' = [hosts EXCEPT ![executors[e].v.env].v.dispatchers =
                     [c \in ContractIds |->
                         IF c \in ids THEN FreshCell(registries) ELSE @[c]]]
    /\ actor' = e
    /\ UNCHANGED <<coreVars, loaderVars, arityVars, normVars, evalVars, breakVars,
                   condVars, upVars, oracleVars>>

-----------------------------------------------------------------------------
(* The example contract OraclePriceFeed *)

Assets == {"XLM", "BTC"}
PriceInputs == {-1, 0, 1000000, 1100000}
Addresses == {"GADMIN", "GOTHER"}
TtlInputs == 0..MaxTtl
Timestamps == 0..MaxTime

\* DataKey
Admin == <<"Admin">>
StaleTtl == <<"StaleTtl">>
Price(asset) == <<"Price", asset>>
Timestamp(asset) == <<"Timestamp", asset>>
InstanceKeys == {Admin, StaleTtl}
PersistentKeys == {Price(a) : a \in Assets} \cup {Timestamp(a) : a \in Assets}

\* OracleError, as the error a call returns.
OracleError(name) == Err(name, <<>>)

\* A call that panics (unwrap on None) or whose require_auth fails: the host
\* fails the invocation and rolls its writes back.
Trapped == Err("Trapped", <<>>)

OracleEmpty ==
    [instance |-> [k \in InstanceKeys |-> None],
     persistent |-> [k \in PersistentKeys |-> None]]

\* What a call returns and the storage it leaves.
Returns(res, storage_map) == [res |-> res, storage |-> storage_map]

SaturatingSub(a, b) == IF a >= b THEN a - b ELSE 0

\* An initialize that validates the TTL before it looks for an admin.
initialize_ttl_first(st, admin, stale_ttl, auth) ==
    IF stale_ttl = 0 THEN Returns(OracleError("InvalidTtl"), st)
    ELSE IF st.instance[Admin].some THEN Returns(OracleError("AlreadyInitialized"), st)
    ELSE IF ~auth THEN Returns(Trapped, st)
    ELSE Returns(Ok(<<>>),
                 [st EXCEPT !.instance = [@ EXCEPT ![Admin] = Some(admin),
                                                   ![StaleTtl] = Some(stale_ttl)]])

\* initialize(env, admin, stale_ttl); auth: whether admin.require_auth() passes.
initialize(st, admin, stale_ttl, auth) ==
    IF st.instance[Admin].some THEN Returns(OracleError("AlreadyInitialized"), st)
    ELSE IF stale_ttl = 0 THEN Returns(OracleError("InvalidTtl"), st)
    ELSE IF ~auth THEN Returns(Trapped, st)
    ELSE Returns(Ok(<<>>),
                 [st EXCEPT !.instance = [@ EXCEPT ![Admin] = Some(admin),
                                                   ![StaleTtl] = Some(stale_ttl)]])

\* A set_price that keeps the price an asset already has.
set_price_once(st, now, asset, price, auth) ==
    IF price <= 0 THEN Returns(OracleError("InvalidPrice"), st)
    ELSE IF ~st.instance[Admin].some THEN Returns(Trapped, st)
    ELSE IF ~auth THEN Returns(Trapped, st)
    ELSE Returns(Ok(<<>>),
                 [st EXCEPT !.persistent =
                     [@ EXCEPT ![Price(asset)] = IF @.some THEN @ ELSE Some(price),
                               ![Timestamp(asset)] = Some(now)]])

\* A set_price that rejects negative prices only.
set_price_zero(st, now, asset, price, auth) ==
    IF price < 0 THEN Returns(OracleError("InvalidPrice"), st)
    ELSE IF ~st.instance[Admin].some THEN Returns(Trapped, st)
    ELSE IF ~auth THEN Returns(Trapped, st)
    ELSE Returns(Ok(<<>>),
                 [st EXCEPT !.persistent = [@ EXCEPT ![Price(asset)] = Some(price),
                                                     ![Timestamp(asset)] = Some(now)]])

\* set_price(env, asset, price); now: env.ledger().timestamp().
set_price(st, now, asset, price, auth) ==
    IF price <= 0 THEN Returns(OracleError("InvalidPrice"), st)
    ELSE IF ~st.instance[Admin].some THEN Returns(Trapped, st)
    ELSE IF ~auth THEN Returns(Trapped, st)
    ELSE Returns(Ok(<<>>),
                 [st EXCEPT !.persistent = [@ EXCEPT ![Price(asset)] = Some(price),
                                                     ![Timestamp(asset)] = Some(now)]])

get_price(st, asset) ==
    IF st.persistent[Price(asset)].some
    THEN Returns(Ok(st.persistent[Price(asset)].v), st)
    ELSE Returns(OracleError("AssetNotFound"), st)

get_timestamp(st, asset) ==
    IF st.persistent[Timestamp(asset)].some
    THEN Returns(Ok(st.persistent[Timestamp(asset)].v), st)
    ELSE Returns(OracleError("AssetNotFound"), st)

\* An is_stale that takes a price for stale when its age has reached the TTL.
is_stale_at_ttl(st, now, asset) ==
    IF ~st.persistent[Timestamp(asset)].some
    THEN Returns(OracleError("AssetNotFound"), st)
    ELSE IF ~st.instance[StaleTtl].some THEN Returns(Trapped, st)
    ELSE Returns(Ok(SaturatingSub(now, st.persistent[Timestamp(asset)].v)
                        >= st.instance[StaleTtl].v), st)

is_stale(st, now, asset) ==
    IF ~st.persistent[Timestamp(asset)].some
    THEN Returns(OracleError("AssetNotFound"), st)
    ELSE IF ~st.instance[StaleTtl].some THEN Returns(Trapped, st)
    ELSE Returns(Ok(SaturatingSub(now, st.persistent[Timestamp(asset)].v)
                        > st.instance[StaleTtl].v), st)

get_stale_ttl(st) ==
    IF st.instance[StaleTtl].some
    THEN Returns(Ok(st.instance[StaleTtl].v), st)
    ELSE Returns(Trapped, st)

\* The record of a call of the oracle.
OracleCall(op, asset, arg, admin, ret) ==
    [op |-> op, asset |-> asset, arg |-> arg, admin |-> admin, res |-> ret.res,
     before |-> oracle_storage, now |-> oracle_ledger]

NoOracleCall ==
    [op |-> "none", asset |-> "", arg |-> 0, admin |-> "", res |-> Ok(<<>>),
     before |-> OracleEmpty, now |-> 0]

\* client.initialize(&admin, &stale_ttl)
Initialize(admin, stale_ttl, auth) ==
    LET ret == initialize(oracle_storage, admin, stale_ttl, auth)
    IN /\ oracle_storage' = ret.storage
       /\ oracle_call' = OracleCall("initialize", "", stale_ttl, admin, ret)
       /\ oracle_hist' =
              IF ret.res.ok
              THEN [oracle_hist EXCEPT
                       !.inits = IF @ < 2 THEN @ + 1 ELSE @,
                       !.admin = IF oracle_hist.inits = 0 THEN Some(admin) ELSE @,
                       !.stale_ttl = IF oracle_hist.inits = 0 THEN Some(stale_ttl) ELSE @]
              ELSE oracle_hist
       /\ UNCHANGED oracle_ledger
       /\ UNCHANGED <<coreVars, loaderVars, arityVars, normVars, evalVars, breakVars,
                      condVars, upVars, procVars>>

\* client.set_price(&asset, &price)
SetPrice(asset, price, auth) ==
    LET ret == set_price(oracle_storage, oracle_ledger, asset, price, auth)
    IN /\ oracle_storage' = ret.storage
       /\ oracle_call' = OracleCall("set_price", asset, price, "", ret)
       /\ oracle_hist' =
              IF ret.res.ok
              THEN [oracle_hist EXCEPT !.latest[asset] =
                       Some([price |-> price, timestamp |-> oracle_ledger])]
              ELSE oracle_hist
       /\ UNCHANGED oracle_ledger
       /\ UNCHANGED <<coreVars, loaderVars, arityVars, normVars, evalVars, breakVars,
                      condVars, upVars, procVars>>

\* A read of the oracle: the call returns and the storage is what it left.
OracleRead(op, asset, ret) ==
    /\ oracle_storage' = ret.storage
    /\ oracle_call' = OracleCall(op, asset, 0, "", ret)
    /\ UNCHANGED <<oracle_ledger, oracle_hist>>
    /\ UNCHANGED <<coreVars, loaderVars, arityVars, normVars, evalVars, breakVars,
                   condVars, upVars, procVars>>

GetPrice(asset) == OracleRead("get_price", asset, get_price(oracle_storage, asset))

GetTimestamp(asset) ==
    OracleRead("get_timestamp", asset, get_timestamp(oracle_storage, asset))

IsStale(asset) ==
    OracleRead("is_stale", asset, is_stale(oracle_storage, oracle_ledger, asset))

GetStaleTtl == OracleRead("get_stale_ttl", "", get_stale_ttl(oracle_storage))

\* env.ledger().with_mut(|l| l.timestamp = t)
SetLedgerTimestamp(t) ==
    /\ oracle_ledger' = t
    /\ UNCHANGED <<oracle_storage, oracle_call, oracle_hist>>
    /\ UNCHANGED <<coreVars, loaderVars, arityVars, normVars, evalVars, breakVars,
                   condVars, upVars, procVars>>

-----------------------------------------------------------------------------
(* Initial states *)

\* No type name has been handed to tuple_arity_from_type_name.
ArityIdle ==
    /\ arity_in = [kind |-> "tuple", types |-> <<>>, name |-> TupleOf(<<>>)]
    /\ arity_out = NotComputed

\* No --args text has been handed to normalize_args_for_function.
NormIdle ==
    /\ norm_in = [signatures |-> Ok([f |-> <<>>]), function |-> "f",
                  args_json |-> InvalidText]
    /\ norm_out = NotComputed
    /\ norm_again = NotComputed

\* No condition has been handed to evaluate_condition.
EvalIdle ==
    /\ eval_in = [condition |-> StorageCondition("counter", "Eq", <<>>),
                  storage |-> [k \in StorageKeys |-> None], args_json |-> None]
    /\ eval_out = NotComputed

\* BreakpointManager::new
BreakNew ==
    /\ breakpoints = NoBreakpoints
    /\ bp_names = {}
    /\ bp_last = NoBpCall

\* No condition string has been handed to parse_condition.
CondIdle ==
    /\ cond_in = <<>>
    /\ cond_out = NotComputed
    /\ cond_again = NotComputed

\* No binaries have been handed to analyze.
UpgradeIdle ==
    /\ up_in = [old_wasm |-> Ok(<<>>), new_wasm |-> Ok(<<>>),
                execution_diffs |-> <<>>]
    /\ up_out = NotComputed
    /\ up_back = NotComputed

\* No executor has been created in the process.
ProcessIdle ==
    /\ hosts = [i \in HostCells |-> None]
    /\ registries = [i \in RegistryCells |-> None]
    /\ executors = [e \in Executors |-> None]
    /\ actor = 0

\* The oracle contract is registered and no function of it has been called.
OracleDeployed ==
    /\ oracle_storage = OracleEmpty
    /\ oracle_ledger = 0
    /\ oracle_call = NoOracleCall
    /\ oracle_hist = [inits |-> 0, admin |-> None, stale_ttl |-> None,
                      latest |-> [a \in Assets |-> None]]

\* The components outside the runtime and the breakpoint manager are idle.
ToolsIdle == CondIdle /\ UpgradeIdle /\ ProcessIdle /\ OracleDeployed

Init == InitExecutor /\ ArityIdle /\ NormIdle /\ EvalIdle /\ BreakNew /\ ToolsIdle

\* A type name is about to be handed to tuple_arity_from_type_name.
InitArity ==
    /\ InitExecutor /\ NormIdle /\ EvalIdle /\ BreakNew /\ ToolsIdle
    /\ arity_in \in ArityInputs
    /\ arity_out = NotComputed

\* An --args text is about to be normalised for a function of a contract.
InitNormalize ==
    /\ InitExecutor /\ ArityIdle /\ EvalIdle /\ BreakNew /\ ToolsIdle
    /\ norm_in \in NormInputs
    /\ norm_out = NotComputed
    /\ norm_again = NotComputed

\* A condition is about to be evaluated.
InitEvaluate ==
    /\ InitExecutor /\ ArityIdle /\ NormIdle /\ BreakNew /\ ToolsIdle
    /\ eval_in \in EvalInputs
    /\ eval_out = NotComputed

\* A condition string is about to be parsed.
InitCondition ==
    /\ InitExecutor /\ ArityIdle /\ NormIdle /\ EvalIdle /\ BreakNew /\ UpgradeIdle
    /\ ProcessIdle /\ OracleDeployed
    /\ cond_in \in ConditionInputs
    /\ cond_out = NotComputed
    /\ cond_again = NotComputed

\* Two binaries are about to be analysed.
InitUpgrade ==
    /\ InitExecutor /\ ArityIdle /\ NormIdle /\ EvalIdle /\ BreakNew /\ CondIdle
    /\ ProcessIdle /\ OracleDeployed
    /\ up_in \in UpgradeInputs
    /\ up_out = NotComputed
    /\ up_back = NotComputed

\* Two binaries of one function each are about to be analysed.
InitSignatures ==
    /\ InitExecutor /\ ArityIdle /\ NormIdle /\ EvalIdle /\ BreakNew /\ CondIdle
    /\ ProcessIdle /\ OracleDeployed
    /\ up_in \in SignatureInputs
    /\ up_out = NotComputed
    /\ up_back = NotComputed

-----------------------------------------------------------------------------

Watchdog(i) == WdRecvOk(i) \/ WdDisconnected(i) \/ WdTimeout(i) \/ WdExit(i)

Next ==
    \/ \E f \in Functions, a \in ArgInputs : Execute(f, a)
    \/ StorageBefore
    \/ ConvertArgs
    \/ LaunchWatchdog
    \/ HostCall
    \/ HostPanic
    \/ DispatcherPanic
    \/ CancelWatchdog
    \/ StorageAfter
    \/ FormatResult
    \/ EmitBudget
    \/ ReturnRecord
    \/ \E i \in Calls : WdRecvOk(i)
    \/ \E i \in Calls : WdDisconnected(i)
    \/ \E i \in Calls : WdTimeout(i)
    \/ \E i \in Calls : WdExit(i)
    \/ Tick
    \/ \E secs \in TimeoutChoices : SetTimeout(secs)
    \/ SnapshotStorage
    \/ RestoreStorage
    \/ \E ids \in SUBSET ContractIds : SetMockRegistry(ids)

Spec == Init /\ [][Next]_vars

\* execute with all its steps, and the threads it spawns.
Invocation ==
    \/ \E f \in Functions, a \in ArgInputs : Execute(f, a)
    \/ StorageBefore
    \/ ConvertArgs
    \/ LaunchWatchdog
    \/ HostCall
    \/ HostPanic
    \/ CancelWatchdog
    \/ StorageAfter
    \/ FormatResult
    \/ EmitBudget
    \/ ReturnRecord
    \/ \E i \in Calls : WdRecvOk(i)
    \/ \E i \in Calls : WdDisconnected(i)
    \/ \E i \in Calls : WdTimeout(i)
    \/ \E i \in Calls : WdExit(i)
    \/ Tick

\* Sessions of a caller that installs mocks and invokes, with dispatchers
\* that can panic.
NextMocks ==
    \/ Invocation
    \/ DispatcherPanic
    \/ \E ids \in SUBSET ContractIds : SetMockRegistry(ids)

SpecMocks == Init /\ [][NextMocks]_vars

\* Sessions of a caller that invokes and sets timeouts.
NextTimeout ==
    \/ Invocation
    \/ \E secs \in TimeoutChoices : SetTimeout(secs)

SpecTimeout == Init /\ [][NextTimeout]_vars

\* Sessions of a caller that invokes, snapshots, restores and installs mocks.
NextSession ==
    \/ Invocation
    \/ SnapshotStorage
    \/ RestoreStorage
    \/ \E ids \in SUBSET ContractIds : SetMockRegistry(ids)

SpecSession == Init /\ [][NextSession]_vars

\* Direct calls of invoke_function, and runs of load_contract.
NextProgress ==
    \/ \E a \in ParsedArgInputs, t \in TimeoutChoices : InvokeFunction(a, t)
    \/ StorageBefore
    \/ ConvertArgs
    \/ LaunchWatchdog
    \/ HostCall
    \/ HostPanic
    \/ CancelWatchdog
    \/ StorageAfter
    \/ FormatResult
    \/ EmitBudget
    \/ ReturnRecord
    \/ \E i \in Calls : WdRecvOk(i)
    \/ \E i \in Calls : WdDisconnected(i)
    \/ \E i \in Calls : WdTimeout(i)
    \/ \E i \in Calls : WdExit(i)
    \/ Tick
    \/ LoadStart
    \/ LoadSetDiagnostic
    \/ LoadRegister

SpecProgress == Init /\ [][NextProgress]_vars

\* Calls of tuple_arity_from_type_name.
NextArity == TupleArity

SpecArity == InitArity /\ [][NextArity]_vars

\* Normalisations of an --args text, and of the text that comes out.
NextNormalize ==
    \/ NormalizeArgs
    \/ NormalizeOutput

SpecNormalize == InitNormalize /\ [][NextNormalize]_vars

\* Calls of evaluate_condition.
NextEvaluate == EvaluateCondition

SpecEvaluate == InitEvaluate /\ [][NextEvaluate]_vars

\* A debugging session that sets, removes and asks for breakpoints.
NextBreakpoints ==
    \/ \E fn \in BpFunctions, c \in BpConditions : Add(fn, c)
    \/ \E fn \in BpFunctions : Remove(fn)
    \/ \E fn \in BpFunctions, st \in BpStorages, a \in BpArgs : ShouldBreak(fn, st, a)
    \/ Clear

SpecBreakpoints == Init /\ [][NextBreakpoints]_vars

\* Parses of a condition string, and of the Display of what was parsed.
NextCondition ==
    \/ ParseCondition
    \/ ParseDisplayed

SpecCondition == InitCondition /\ [][NextCondition]_vars

\* A caller that creates two executors and calls them in any order.
NextProcess ==
    \/ \E e \in Executors, wasm \in Binary : NewExecutor(e, wasm)
    \/ \E e \in Executors, f \in Functions : ExecuteOn(e, f)
    \/ \E e \in Executors, st \in Storages : RestoreStorageOn(e, st)
    \/ \E e \in Executors, ids \in SUBSET ContractIds : SetMockRegistryOn(e, ids)

SpecProcess == Init /\ [][NextProcess]_vars

\* Any sequence of calls of the oracle, with the ledger time set in between.
NextOracle ==
    \/ \E admin \in Addresses, ttl \in TtlInputs, auth \in BOOLEAN :
           Initialize(admin, ttl, auth)
    \/ \E a \in Assets, p \in PriceInputs, auth \in BOOLEAN : SetPrice(a, p, auth)
    \/ \E a \in Assets : GetPrice(a)
    \/ \E a \in Assets : GetTimestamp(a)
    \/ \E a \in Assets : IsStale(a)
    \/ GetStaleTtl
    \/ \E t \in Timestamps : SetLedgerTimestamp(t)

SpecOracle == Init /\ [][NextOracle]_vars

\* Analyses of two binaries, one way and the other.
NextUpgrade ==
    \/ Analyze
    \/ AnalyzeBack

SpecUpgrade == InitUpgrade /\ [][NextUpgrade]_vars

\* Analyses of two functions with longer parameter lists.
SpecSignatures == InitSignatures /\ [][NextUpgrade]_vars

\* The operating system schedules every spawned thread and time passes.
FairTimeout ==
    /\ SpecTimeout
    /\ \A i \in Calls : WF_vars(Watchdog(i))
    /\ WF_vars(Tick)

-----------------------------------------------------------------------------
(* The hang watchdog *)

C2_ReturnedNeverExits ==
    \A i \in Calls :
        /\ chan[i].early => (wd[i] # "timedout" /\ exitedBy # i)
        /\ exitedBy = i => ~(chan[i].msg /\ ~chan[i].txAlive)

\* C3: the process ends only by the exit of a watchdog that observed its
\* timeout, and only with code 124; an invocation with timeout_secs = 0 has
\* no watchdog; and a failure of execute is returned to a caller that is still
\* running, as InvalidFunction, InvalidArguments or ExecutionError.
C3_ExitOnlyFromWatchdog ==
    /\ exitCode \in {Running, Some(TimeoutExitCode)}
    /\ (exitCode # Running) <=> (exitedBy # 0)
    /\ exitedBy # 0 => /\ exitedBy \in 1..ncalls
                       /\ wd[exitedBy] = "timedout"
                       /\ chan[exitedBy].timeout > 0
    /\ \A i \in 1..ncalls : chan[i].timeout = 0 => wd[i] = "none"
    /\ (lastResult.op = "execute" /\ ~lastResult.res.ok)
           => /\ Alive
              /\ lastResult.res.err \in
                    {"InvalidFunction", "InvalidArguments", "ExecutionError", "pending"}

\* An invocation made with timeout_secs = 0 was aborted by the host: it had no
\* watchdog and its failure was returned as an ExecutionError.
C3_Witness ==
    /\ Alive
    /\ lastResult.op = "execute" /\ ~lastResult.res.ok
    /\ lastResult.res.err = "ExecutionError"
    /\ lastInvoke.some /\ lastInvoke.v.host.kind = "Abort"
    /\ ncalls = 1 /\ chan[1].timeout = 0 /\ wd[1] = "none"

-----------------------------------------------------------------------------
(* The phases of an invocation *)

PhaseOrder == <<"storage_before", "invocation", "storage_after", "format", "budget">>

\* C4: the phases an invocation has gone through are always an initial part
\* of: capture of storage_before, guest invocation, capture of storage_after,
\* result formatting, budget and memory emission; so each phase comes after
\* the ones before it and none is repeated.
C4_PhaseOrder ==
    \E n \in 0..Len(PhaseOrder) : events = SubSeq(PhaseOrder, 1, n)

\* An invocation has gone through all five phases and is about to return.
C4_Witness ==
    /\ pc = "return"
    /\ events = PhaseOrder

-----------------------------------------------------------------------------
(* The execution record *)

\* The outcomes of the host call that format_invocation_result tells apart.
Outcome(r) == IF r.kind = "OkOk" THEN <<r.kind, r.conv>> ELSE <<r.kind, TRUE>>

C6_LastExecutionIsThisCall ==
    (lastResult.op = "execute" /\ lastResult.res.ok) =>
        /\ LastExecution.some /\ lastInvoke.some
        /\ LET r == LastExecution.v
               h == lastInvoke.v.host
           IN /\ r.function = entry.function
              /\ r.args = ToScVals(Validate(entry.function, entry.args).v)
              /\ r.result = Ok(ToScVal(Val(h.n)))
              /\ lastResult.res.v = DebugVal(Val(h.n))
              /\ r.storage_before = entry.storage
              /\ r.storage_after = GetStorageSnapshot

\* The second invocation of a session succeeded with an argument, on a
\* storage that an earlier invocation had written and that it changed.
C6_Witness ==
    /\ lastResult.op = "execute" /\ lastResult.res.ok
    /\ ncalls = 2
    /\ entry.args = "[1]"
    /\ LastExecution.v.storage_before # <<>>
    /\ LastExecution.v.storage_before # LastExecution.v.storage_after

-----------------------------------------------------------------------------
(* Snapshot and restore *)

\* C7: the snapshot a caller holds always shows the storage as it was when it
\* was taken, whatever was invoked since; and after every restore_storage of
\* it the storage has exactly the keys and values it had then.
C7_RestoreRestoresAll ==
    /\ snap.some => CaptureSnapshot(snap.v.storage) = snapObs
    /\ lastResult.op = "restore_storage" => GetStorageSnapshot = snapObs

\* A snapshot was taken of a written storage, an invocation changed the
\* storage, and the snapshot has been restored.
C7_Witness ==
    /\ lastResult.op = "restore_storage"
    /\ snapObs # <<>>
    /\ LastExecution.some
    /\ LastExecution.v.storage_before = snapObs
    /\ LastExecution.v.storage_after # snapObs

\* C8: after snapshot_storage, one execute and restore_storage of that
\* snapshot, what the executor shows (the storage snapshot, last_execution()
\* and the mock call log) is what it showed when the snapshot was taken.
C8_DryRunIndistinguishable ==
    dry.stage = "restored" => Obs = dry.obs

-----------------------------------------------------------------------------
(* Rejected calls *)

\* The inputs execute rejects before it reaches invoke_function.
Rejected(f, a) == f \notin Exported \/ (a # NoArgs /\ ~ParseArgs(f, a).ok)

\* A rejection is the last thing the executor did.
AfterRejection ==
    /\ Alive /\ pc = "idle"
    /\ lastResult.op = "execute" /\ ~lastResult.res.ok
    /\ lastResult.res.err \in {"InvalidFunction", "InvalidArguments"}

\* C10: an execute of a function that is not exported, or of arguments that
\* do not parse, starts no invocation and no phase of one, leaves the storage
\* snapshot, last_execution() and the mock call log as they were, and returns
\* InvalidFunction if the function is not exported, whatever the arguments
\* are, and InvalidArguments otherwise; after it, execute of an exported
\* function without arguments can be called and starts an invocation.
C10_RejectedCallChangesNothing ==
    /\ [][\A f \in Functions, a \in ArgInputs :
            (Execute(f, a) /\ Rejected(f, a))
                => /\ pc' = "idle" /\ ncalls' = ncalls /\ events' = <<>>
                   /\ Obs' = Obs
                   /\ lastResult'.op = "execute" /\ ~lastResult'.res.ok
                   /\ lastResult'.res.err =
                         IF f \notin Exported THEN "InvalidFunction"
                                              ELSE "InvalidArguments"]_vars
    /\ [](AfterRejection /\ ncalls < MaxCalls => ENABLED Execute("increment", NoArgs))

\* A call of a function that is not exported has been rejected by an
\* executor that has a record, a written storage and a logged mock call.
C10_Witness ==
    /\ AfterRejection
    /\ lastResult.res.err = "InvalidFunction"
    /\ LastExecution.some
    /\ GetStorageSnapshot # <<>>
    /\ GetMockCallLog # <<>>

-----------------------------------------------------------------------------
(* Progress UI *)

\* invoke_function has returned to its caller.
InvokeReturned == Alive /\ pc = "idle" /\ lastInvoke.some

\* C11: when invoke_function has returned, on any of its return paths, its
\* spinner has been cleared, and the watchdog of an invocation that sent the
\* signal and returned is cancelled: it is not a thread that has observed the
\* timeout and is about to end the process; and when load_contract has
\* returned, with Ok or with an error, its progress bar has been cleared.
C11_ClearedOnEveryReturn ==
    /\ InvokeReturned => spinner = "cleared"
    /\ \A i \in 1..ncalls :
          (Alive /\ chan[i].msg /\ ~chan[i].txAlive) => wd[i] # "timedout"
    /\ load \in {"ok", "err"} => pb = "cleared"

-----------------------------------------------------------------------------
(* Argument normalisation *)

\* C12: normalising the text that a successful normalisation returned gives
\* that same text again, for every signature and every argument array.
C12_NormalizeIdempotent ==
    norm_again.done => norm_again.res = norm_out.res

NormLooped ==
    /\ norm_out.done
    /\ norm_in.signatures.ok
    /\ norm_in.function \in DOMAIN norm_in.signatures.v
    /\ norm_in.args_json.valid
    /\ norm_in.args_json.value.t = "array"

NormParams == norm_in.signatures.v[norm_in.function]
NormArgsIn == norm_in.args_json.value.items
NormArgsOut == norm_out.res.v.value.items

\* The arguments that have a parameter.
Zipped == 1..ZipLen(NormArgsIn, NormParams)

\* Parameter i is a tuple type that has an arity.
IsTupleParam(i) ==
    /\ StartsWith(NormParams[i].type_name, TuplePrefix)
    /\ tuple_arity_from_type_name(NormParams[i].type_name).some

TupleArityOf(i) == tuple_arity_from_type_name(NormParams[i].type_name).v

\* Argument i is an array of as many elements as its tuple type has.
TupleFits(i) ==
    /\ NormArgsIn[i].t = "array"
    /\ Len(NormArgsIn[i].items) = TupleArityOf(i)

\* The pieces of msg contain the pieces of part, next to each other.
Contains(msg, part) ==
    \E k \in 1..Len(msg) :
        k + Len(part) - 1 <= Len(msg) /\ SubSeq(msg, k, k + Len(part) - 1) = part

\* C14: for a Tuple parameter, an argument that is no array or whose length
\* is not the arity makes the normalisation fail with InvalidArguments and
\* return no output, whatever was rewrapped before it; a wrong length is
\* reported as "arity mismatch: expected N, got M"; an array of the right
\* length is rewrapped as {"type":"tuple","arity":N,"value":arg}.
C14_TupleCheckedAndWrapped ==
    NormLooped =>
        \A i \in Zipped : IsTupleParam(i) =>
            /\ ~TupleFits(i) =>
                   /\ ~norm_out.res.ok
                   /\ norm_out.res.err = "InvalidArguments"
            /\ (NormArgsIn[i].t = "array" /\ ~TupleFits(i)
                   /\ \A j \in 1..(i - 1) : IsTupleParam(j) => TupleFits(j)) =>
                   Contains(norm_out.res.msg,
                            <<"arity mismatch: expected ", ToString(TupleArityOf(i)),
                              ", got ", ToString(Len(NormArgsIn[i].items))>>)
            /\ (\A j \in Zipped :
                    StartsWith(NormParams[j].type_name, TuplePrefix) =>
                        IsTupleParam(j) /\ TupleFits(j)) =>
                   /\ norm_out.res.ok
                   /\ NormArgsOut[i] = TupleEnvelope(TupleArityOf(i), NormArgsIn[i])

\* f(Option<U32>, Tuple<U32,U32>) with [null, [1,2,3]]: the first argument
\* would be rewrapped, the second has the wrong length.
C14_Witness ==
    /\ NormLooped
    /\ NormParams = Params(<<OptionOf(U32), Tuple2>>)
    /\ NormArgsIn = <<JNull, JArr(<<JNum(1), JNum(2), JNum(3)>>)>>
    /\ ~norm_out.res.ok
    /\ Contains(norm_out.res.msg, <<"arity mismatch: expected ", "2", ", got ", "3">>)

IsOptionParam(i) == StartsWith(NormParams[i].type_name, OptionPrefix)

\* C15: for an Option parameter the argument is rewrapped as
\* {"type":"option","value":arg} exactly when it is not already an object
\* with a type and a value member, and is left as it is otherwise; for
\* f(Option<U32>) the input [null] becomes [{"type":"option","value":null}].
C15_OptionWrappedOnce ==
    NormLooped =>
        /\ (\A j \in Zipped : ~StartsWith(NormParams[j].type_name, TuplePrefix))
               => norm_out.res.ok
        /\ norm_out.res.ok =>
               \A i \in Zipped : IsOptionParam(i) =>
                   /\ ~is_typed_annotation(NormArgsIn[i]) =>
                          NormArgsOut[i] = JObj([type |-> JStr(OptionTag),
                                                 value |-> NormArgsIn[i]])
                   /\ is_typed_annotation(NormArgsIn[i]) =>
                          NormArgsOut[i] = NormArgsIn[i]
        /\ (NormParams = Params(<<OptionOf(U32)>>) /\ NormArgsIn = <<JNull>>) =>
               norm_out.res =
                   Ok(Text(JArr(<<JObj([type |-> JStr(OptionTag), value |-> JNull])>>),
                           TRUE))

C15_Witness ==
    /\ NormLooped
    /\ NormParams = Params(<<OptionOf(U32)>>)
    /\ NormArgsIn = <<JNull>>
    /\ norm_out.res.ok
    /\ NormArgsOut = <<OptionEnvelope(JNull)>>

\* The contract was read and it has no function of the name asked for.
UnknownFunction ==
    /\ norm_in.signatures.ok
    /\ norm_in.function \notin DOMAIN norm_in.signatures.v

\* The function has a signature and the text is JSON, but not an array.
NotAnArray ==
    /\ norm_in.signatures.ok
    /\ norm_in.function \in DOMAIN norm_in.signatures.v
    /\ norm_in.args_json.valid
    /\ norm_in.args_json.value.t # "array"

\* C16: when the function is not among the signatures, or the top-level
\* JSON is not an array, the input text is returned unchanged; within an
\* array, an argument whose parameter is neither Option nor Tuple, and an
\* argument beyond the parameter list, has the same value in the output.
C16_RestUntouched ==
    norm_out.done =>
        /\ (UnknownFunction \/ NotAnArray) => norm_out.res = Ok(norm_in.args_json)
        /\ (NormLooped /\ norm_out.res.ok) =>
               /\ Len(NormArgsOut) = Len(NormArgsIn)
               /\ \A i \in 1..Len(NormArgsIn) :
                      (i \notin Zipped
                         \/ (~IsOptionParam(i)
                              /\ ~StartsWith(NormParams[i].type_name, TuplePrefix)))
                      => NormArgsOut[i] = NormArgsIn[i]

\* f(U32, Option<U32>) with [1, null] written with white space: the first
\* argument has a plain parameter, and the text that comes out is another.
C16_Witness ==
    /\ NormLooped
    /\ NormParams = Params(<<U32, OptionOf(U32)>>)
    /\ NormArgsIn = <<JNum(1), JNull>>
    /\ ~norm_in.args_json.canonical
    /\ norm_out.res.ok
    /\ NormArgsOut = <<JNum(1), OptionEnvelope(JNull)>>

-----------------------------------------------------------------------------
(* Breakpoints *)

\* C17: the manager holds at most one breakpoint per function name; adding
\* again for a name replaces the condition; count() is the number of names
\* added and not removed; remove returns true exactly when the name had a
\* breakpoint; is_empty() holds exactly when count() is 0.
C17_OneBreakpointPerName ==
    /\ \A fn \in BpFunctions : Cardinality({b \in list : b.function = fn}) <= 1
    /\ count = Cardinality(bp_names)
    /\ is_empty <=> count = 0
    /\ bp_last.op = "add" =>
           /\ breakpoints[bp_last.function].some
           /\ breakpoints[bp_last.function].v.condition = bp_last.condition
    /\ bp_last.op = "remove" =>
           /\ bp_last.ret <=> bp_last.before[bp_last.function].some
           /\ ~breakpoints[bp_last.function].some

\* A second add for a name, with another condition.
C17_Witness ==
    /\ bp_last.op = "add"
    /\ bp_last.before[bp_last.function].some
    /\ bp_last.before[bp_last.function].v.condition # bp_last.condition
    /\ breakpoints[bp_last.function].v.condition = bp_last.condition
    /\ count = 1

\* The manager with every breakpoint but the one of `function` taken away.
OnlyBreakpointOf(function) ==
    [fn \in BpFunctions |-> IF fn = function THEN breakpoints[fn] ELSE None]

\* C18: should_break(f, ...) is false when f has no breakpoint and true when
\* f has a breakpoint without a condition; the breakpoints of other names
\* do not change its answer.
C18_ShouldBreakByName ==
    bp_last.op = "should_break" =>
        /\ ~breakpoints[bp_last.function].some => ~bp_last.ret
        /\ (breakpoints[bp_last.function].some
               /\ ~breakpoints[bp_last.function].v.condition.some) => bp_last.ret
        /\ bp_last.ret = should_break(OnlyBreakpointOf(bp_last.function),
                                      bp_last.function, bp_last.storage,
                                      bp_last.args_json)

\* No breakpoint on the function asked for, an unconditional one on another.
C18_Witness ==
    /\ bp_last.op = "should_break"
    /\ ~breakpoints[bp_last.function].some
    /\ \E fn \in BpFunctions :
          breakpoints[fn].some /\ ~breakpoints[fn].v.condition.some
    /\ ~bp_last.ret

\* The subject of the evaluated condition is missing: the storage has not
\* the key, or there are no arguments, they are not JSON, they are not an
\* object, or the object has not the member.
SubjectMissing ==
    IF eval_in.condition.kind = "Storage"
    THEN ~eval_in.storage[eval_in.condition.key].some
    ELSE \/ ~eval_in.args_json.some
         \/ ~eval_in.args_json.v.valid
         \/ eval_in.args_json.v.value.t # "object"
         \/ eval_in.condition.name \notin DOMAIN eval_in.args_json.v.value.members

\* C19: a condition whose subject is missing does not fire, whatever its
\* operator, != included.
C19_MissingSubjectNeverFires ==
    (eval_out.done /\ SubjectMissing) => eval_out.res = FALSE

\* storage[counter] != 10 with no key `counter`.
C19_Witness ==
    /\ eval_out.done
    /\ eval_in.condition = StorageCondition("counter", "Ne", Ten)
    /\ ~eval_in.storage["counter"].some
    /\ eval_out.res = FALSE

\* The operator on two numbers.
NumberHolds(op, a, e) ==
    CASE op = "Eq" -> a = e
      [] op = "Ne" -> a # e
      [] op = "Gt" -> a > e
      [] op = "Lt" -> a < e
      [] op = "Ge" -> a >= e
      [] op = "Le" -> a <= e

\* The operator on two strings in their lexicographic order.
StringHolds(op, a, e) ==
    CASE op = "Eq" -> a = e
      [] op = "Ne" -> a # e
      [] op = "Gt" -> StrLess(e, a)
      [] op = "Lt" -> StrLess(a, e)
      [] op = "Ge" -> StrLess(e, a) \/ a = e
      [] op = "Le" -> StrLess(a, e) \/ a = e

\* A storage condition was evaluated and the storage has its key.
StoredCompared ==
    /\ eval_out.done
    /\ eval_in.condition.kind = "Storage"
    /\ eval_in.storage[eval_in.condition.key].some

AppleAgainstTen ==
    /\ bp_last.op = "should_break"
    /\ breakpoints[bp_last.function] =
           Some(Breakpoint(bp_last.function,
                           Some(StorageCondition("counter", "Ge", Ten))))
    /\ bp_last.storage["counter"] = Some(Apple)

\* C21 as stated: with the condition storage[counter] >= 10 and the storage
\* {counter: "apple"}, should_break returns false.
C21_AppleDoesNotBreak == AppleAgainstTen => bp_last.ret = FALSE

\* C21: with the condition storage[counter] >= 10 and the storage
\* {counter: "apple"}, should_break returns true: "apple" is no number, and
\* as a string it is not less than "10".
C21_AppleBreaks == AppleAgainstTen => bp_last.ret = TRUE

C21_Witness == AppleAgainstTen /\ bp_last.ret = TRUE

-----------------------------------------------------------------------------
(* Condition strings *)

\* C22: for every condition string that parse_condition accepts, the
\* Display of the parsed condition parses again, to an equal condition.
C22_DisplayParsesBack ==
    cond_again.done => cond_again.res = cond_out.res

NoOuterSpace(s) == s = <<>> \/ (s[1] # " " /\ s[Len(s)] # " ")

\* C23: for every accepted input, the key of a Storage condition, the name
\* of an Argument condition and the value of either have no leading and no
\* trailing white space.
C23_PartsTrimmed ==
    (cond_out.done /\ cond_out.res.ok) =>
        /\ NoOuterSpace(cond_out.res.v.value)
        /\ cond_out.res.v.kind = "Storage" => NoOuterSpace(cond_out.res.v.key)
        /\ cond_out.res.v.kind = "Argument" => NoOuterSpace(cond_out.res.v.name)

-----------------------------------------------------------------------------
(* Upgrade analysis *)

\* Both analyses of the two binaries returned a report.
Analyzed == up_out.done /\ up_back.done /\ up_out.res.ok /\ up_back.res.ok

NamesOf(sigs) == {sigs[i].name : i \in 1..Len(sigs)}
OldNames == NamesOf(up_in.old_wasm.v)
NewNames == NamesOf(up_in.new_wasm.v)

\* The elements of a list of changes.
Elements(changes) == {changes[i] : i \in 1..Len(changes)}

\* C24: for lists of signatures with distinct names and every function f on
\* one side only, diff(old, new) has FunctionRemoved{f} among the breaking
\* changes exactly when diff(new, old) has FunctionAdded{f} among the
\* non-breaking ones; FunctionRemoved is emitted exactly for the old names
\* absent from new, FunctionAdded exactly for the new names absent from old.
C24_DiffSymmetry ==
    Analyzed =>
        /\ \A f \in (OldNames \ NewNames) \cup (NewNames \ OldNames) :
               FunctionRemoved(f) \in Elements(up_out.res.v.breaking_changes)
               <=> FunctionAdded(f) \in Elements(up_back.res.v.non_breaking_changes)
        /\ {c.name : c \in {c \in Elements(up_out.res.v.breaking_changes) :
                                c.type = "FunctionRemoved"}}
               = OldNames \ NewNames
        /\ {c.name : c \in Elements(up_out.res.v.non_breaking_changes)}
               = NewNames \ OldNames

\* foo on the old side only, beside a function both sides have.
C24_Witness ==
    /\ Analyzed
    /\ OldNames = {"foo", "bar"}
    /\ NewNames = {"bar"}
    /\ FunctionRemoved("foo") \in Elements(up_out.res.v.breaking_changes)
    /\ up_back.res.v.non_breaking_changes = <<FunctionAdded("foo")>>

\* C25: analysing a binary against itself gives an empty list of breaking
\* changes and an empty list of non-breaking changes, and is_compatible is
\* true when there are no execution diffs.
C25_EmptyOnIdentity ==
    (up_out.done /\ up_in.old_wasm.ok /\ up_in.new_wasm = up_in.old_wasm) =>
        /\ up_out.res.ok
        /\ up_out.res.v.breaking_changes = <<>>
        /\ up_out.res.v.non_breaking_changes = <<>>
        /\ up_in.execution_diffs = <<>> => up_out.res.v.is_compatible

\* A binary with two functions, one of them with a parameter and one with
\* a result, against itself.
C25_Witness ==
    /\ up_out.done
    /\ up_in.old_wasm = Ok(<<FunctionSignature("foo", <<"i32">>, <<>>),
                             FunctionSignature("bar", <<>>, <<"i64">>)>>)
    /\ up_in.new_wasm = up_in.old_wasm
    /\ up_in.execution_diffs = <<>>
    /\ up_out.res.v.breaking_changes = <<>>
    /\ up_out.res.v.is_compatible

\* C26: is_compatible is true exactly when the list of breaking changes is
\* empty and every execution diff has outputs_match; added functions never
\* make the report incompatible, and one mismatching execution diff does,
\* even when no signature changed.
C26_CompatibleIffNothingBreaks ==
    (up_out.done /\ up_out.res.ok) =>
        /\ up_out.res.v.is_compatible <=>
               /\ Len(up_out.res.v.breaking_changes) = 0
               /\ \A i \in 1..Len(up_in.execution_diffs) :
                      up_in.execution_diffs[i].outputs_match
        /\ up_out.res.v.execution_diffs = up_in.execution_diffs
        /\ (up_out.res.v.breaking_changes = <<>>
               /\ up_out.res.v.non_breaking_changes # <<>>
               /\ \A i \in 1..Len(up_in.execution_diffs) :
                      up_in.execution_diffs[i].outputs_match)
               => up_out.res.v.is_compatible

\* The same binary on both sides and one execution diff that does not match.
C26_Witness ==
    /\ up_out.done /\ up_out.res.ok
    /\ up_in.new_wasm = up_in.old_wasm
    /\ up_in.old_wasm.v # <<>>
    /\ \E i \in 1..Len(up_in.execution_diffs) :
          ~up_in.execution_diffs[i].outputs_match
    /\ up_out.res.v.breaking_changes = <<>>
    /\ ~up_out.res.v.is_compatible

\* The place of the function called name in a list of signatures.
PlaceOf(sigs, name) == CHOOSE i \in 1..Len(sigs) : sigs[i].name = name

\* C27: the breaking changes follow the order of the functions in the old
\* list, the changes of one function stand together with its return-type
\* change last, and the FunctionAdded entries follow the order of the new
\* list; old [foo(i32)->[], bar()->[i64]] against new [foo(i64)->[],
\* baz()->[]] gives breaking [ParameterTypeChanged{foo,0,i32,i64},
\* FunctionRemoved{bar}], non-breaking [FunctionAdded{baz}] and
\* is_compatible = false.
C27_ChangesInListOrder ==
    (up_out.done /\ up_out.res.ok) =>
        LET b == up_out.res.v.breaking_changes
            a == up_out.res.v.non_breaking_changes
        IN /\ \A i, j \in 1..Len(b) :
                  i < j =>
                      /\ PlaceOf(up_in.old_wasm.v, b[i].name)
                             <= PlaceOf(up_in.old_wasm.v, b[j].name)
                      /\ b[i].name = b[j].name => b[i].type # "ReturnTypeChanged"
           /\ \A i, j \in 1..Len(a) :
                  i < j => PlaceOf(up_in.new_wasm.v, a[i].name)
                              < PlaceOf(up_in.new_wasm.v, a[j].name)
           /\ (/\ up_in.old_wasm.v = <<FunctionSignature("foo", <<"i32">>, <<>>),
                                        FunctionSignature("bar", <<>>, <<"i64">>)>>
               /\ up_in.new_wasm.v = <<FunctionSignature("foo", <<"i64">>, <<>>),
                                        FunctionSignature("baz", <<>>, <<>>)>>)
                  => /\ b = <<ParameterTypeChanged("foo", 0, "i32", "i64"),
                              FunctionRemoved("bar")>>
                     /\ a = <<FunctionAdded("baz")>>
                     /\ ~up_out.res.v.is_compatible

\* A function that changed both its parameter count and its result, ahead
\* of a removed one, with one function added.
C27_Witness ==
    /\ up_out.done /\ up_out.res.ok
    /\ up_in.old_wasm.v = <<FunctionSignature("foo", <<"i32">>, <<>>),
                            FunctionSignature("bar", <<>>, <<>>)>>
    /\ up_out.res.v.breaking_changes =
           <<ParameterCountChanged("foo", 1, 0),
             ReturnTypeChanged("foo", <<>>, <<"i64">>),
             FunctionRemoved("bar")>>
    /\ up_out.res.v.non_breaking_changes = <<FunctionAdded("baz")>>

\* Every entry of the log `before` is in the log `after`, at the same place.
KeepsEntries(before, after) ==
    /\ Len(before) <= Len(after)
    /\ \A i \in 1..Len(before) : after[i] = before[i]

\* C28: over the lifetime of one executor the call log returned by
\* get_mock_call_log() is append-only: every step of the executor (execute,
\* set_mock_specs, set_mock_registry, snapshot, restore) keeps every entry
\* returned before it, in the same order.
C28_CallLogAppendOnly ==
    [][KeepsEntries(GetMockCallLog, GetMockCallLog')]_vars

\* C29: a poisoned lock of the mock registry is reported, never recovered
\* in silence: set_mock_registry returns ExecutionError("Mock registry lock
\* poisoned") when the lock it takes is poisoned, and get_mock_call_log()
\* does not hand out an empty call log in place of the error.
C29_PoisonedLockReported ==
    /\ (lastResult.op = "set_mock_registry" /\ ~Lock(mock_registry).ok) =>
           lastResult.res = Err("ExecutionError", <<"Mock registry lock poisoned">>)
    /\ ~Lock(mock_registry).ok => GetMockCallLog # <<>>

\* C30: two executors of one process are isolated: a call of execute,
\* restore_storage or set_mock_registry on one executor, and the creation of
\* one, leaves the storage snapshot, last_execution and mock call log of the
\* other as they were.
C30_ExecutorsIsolated ==
    [][\A e \in Executors :
          (executors[e].some /\ actor' # e) => ObsOf(e)' = ObsOf(e)]_vars

\* Executor 2 was created after executor 1 and is as it was created, while
\* executor 1 has installed a registry since, logged a mocked call, written
\* its storage and recorded an execution.
C30_Witness ==
    /\ executors[1].some /\ executors[2].some
    /\ executors[1].v.mock_registry = 3 /\ executors[2].v.mock_registry = 2
    /\ ObsOf(1).mock_log # <<>>
    /\ ObsOf(1).last_execution.some
    /\ ObsOf(1).storage # ObsOf(2).storage
    /\ ObsOf(2) = [storage |-> CaptureSnapshot(EmptyStorage),
                   last_execution |-> None, mock_log |-> <<>>]
    /\ actor = 1

OracleReads == {"get_price", "get_timestamp", "is_stale", "get_stale_ttl"}

\* C31: get_price(asset) returns the price of the most recent successful
\* set_price for the asset, and AssetNotFound if there was none; get_price,
\* get_timestamp, is_stale and get_stale_ttl leave the contract storage as
\* it was before the call.
C31_SetThenGet ==
    /\ oracle_call.op = "get_price" =>
           oracle_call.res =
               IF oracle_hist.latest[oracle_call.asset].some
               THEN Ok(oracle_hist.latest[oracle_call.asset].v.price)
               ELSE OracleError("AssetNotFound")
    /\ oracle_call.op \in OracleReads => oracle_storage = oracle_call.before

\* get_price("XLM") returns 1100000 after a set_price("XLM", 1100000) that
\* replaced nothing of BTC, which holds another price.
C31_Witness ==
    /\ oracle_call.op = "get_price" /\ oracle_call.asset = "XLM"
    /\ oracle_call.res = Ok(1100000)
    /\ oracle_hist.latest["BTC"].some
    /\ oracle_hist.latest["BTC"].v.price = 1000000
    /\ oracle_hist.stale_ttl = Some(2)

\* C32: initialize succeeds at most once; an initialize on an initialised
\* contract returns AlreadyInitialized, also with stale_ttl = 0, and leaves
\* the stored admin and TTL; an initialize with stale_ttl = 0 on an
\* uninitialised contract returns InvalidTtl and writes nothing;
\* get_stale_ttl returns the TTL of the one successful initialize.
C32_InitializedOnce ==
    /\ oracle_hist.inits <= 1
    /\ oracle_storage.instance[Admin] = oracle_hist.admin
    /\ oracle_storage.instance[StaleTtl] = oracle_hist.stale_ttl
    /\ (oracle_call.op = "initialize" /\ oracle_call.before.instance[Admin].some) =>
           /\ oracle_call.res = OracleError("AlreadyInitialized")
           /\ oracle_storage = oracle_call.before
    /\ (oracle_call.op = "initialize" /\ ~oracle_call.before.instance[Admin].some
           /\ oracle_call.arg = 0) =>
           /\ oracle_call.res = OracleError("InvalidTtl")
           /\ oracle_storage = oracle_call.before
    /\ (oracle_call.op = "get_stale_ttl" /\ oracle_hist.inits > 0) =>
           oracle_call.res = Ok(oracle_hist.stale_ttl.v)

\* A second initialize, by another admin and with stale_ttl = 0, on a
\* contract initialised by GADMIN with a TTL of 2.
C32_Witness ==
    /\ oracle_call.op = "initialize" /\ oracle_call.arg = 0
    /\ oracle_call.admin = "GOTHER"
    /\ oracle_call.res = OracleError("AlreadyInitialized")
    /\ oracle_storage.instance[Admin] = Some("GADMIN")
    /\ oracle_storage.instance[StaleTtl] = Some(2)

\* C33: set_price with price <= 0 returns InvalidPrice and leaves the price
\* and the timestamp of every asset; every price get_price returns is
\* strictly positive.
C33_PricePositive ==
    /\ (oracle_call.op = "set_price" /\ oracle_call.arg <= 0) =>
           /\ oracle_call.res = OracleError("InvalidPrice")
           /\ oracle_storage = oracle_call.before
    /\ (oracle_call.op = "get_price" /\ oracle_call.res.ok) => oracle_call.res.v > 0
    /\ \A a \in Assets :
           oracle_storage.persistent[Price(a)].some =>
               oracle_storage.persistent[Price(a)].v > 0

\* set_price("XLM", 0) on an initialised contract that holds a price of XLM.
C33_Witness ==
    /\ oracle_call.op = "set_price" /\ oracle_call.asset = "XLM"
    /\ oracle_call.arg = 0
    /\ oracle_call.res = OracleError("InvalidPrice")
    /\ oracle_storage.persistent[Price("XLM")] = Some(1100000)

\* C34: for an asset with a price, is_stale is true exactly when the ledger
\* timestamp minus the timestamp of the latest successful set_price,
\* saturating at 0, is greater than the TTL; set_price records the ledger
\* timestamp, which get_timestamp returns, and is_stale is false right after
\* it; is_stale of an asset without a price returns AssetNotFound.
C34_StaleAfterTtl ==
    /\ oracle_call.op = "is_stale" =>
           oracle_call.res =
               IF oracle_hist.latest[oracle_call.asset].some
               THEN Ok(SaturatingSub(oracle_call.now,
                                     oracle_hist.latest[oracle_call.asset].v.timestamp)
                           > oracle_hist.stale_ttl.v)
               ELSE OracleError("AssetNotFound")
    /\ (oracle_call.op = "get_timestamp"
           /\ oracle_hist.latest[oracle_call.asset].some) =>
           oracle_call.res = Ok(oracle_hist.latest[oracle_call.asset].v.timestamp)
    /\ (oracle_call.op = "set_price" /\ oracle_call.res.ok) =>
           /\ oracle_hist.latest[oracle_call.asset].v.timestamp = oracle_call.now
           /\ get_timestamp(oracle_storage, oracle_call.asset).res = Ok(oracle_call.now)
           /\ is_stale(oracle_storage, oracle_call.now, oracle_call.asset).res
                  = Ok(FALSE)

\* A price of XLM set at time 0 under a TTL of 1 is found stale at time 2.
C34_Witness ==
    /\ oracle_call.op = "is_stale" /\ oracle_call.asset = "XLM"
    /\ oracle_call.now = 2
    /\ oracle_hist.latest["XLM"].some
    /\ oracle_hist.latest["XLM"].v.timestamp = 0
    /\ oracle_hist.stale_ttl = Some(1)
    /\ oracle_call.res = Ok(TRUE)

\* How many entries of a change list satisfy Test.
CountOf(changes, Test(_)) == Cardinality({i \in 1..Len(changes) : Test(changes[i])})

\* What the claim expects in `changes` for the old function old_sig.
EmittedFor(changes, old_sig, new) ==
    LET named(t) == CountOf(changes, LAMBDA c : c.name = old_sig.name /\ c.type = t)
        exact(x) == CountOf(changes, LAMBDA c : c.type = x.type /\ c = x)
        new_sig == MapGet(new, old_sig.name)
    IN IF ~new_sig.some
       THEN /\ named("FunctionRemoved") = 1
            /\ CountOf(changes, LAMBDA c : c.name = old_sig.name) = 1
       ELSE /\ named("FunctionRemoved") = 0
            /\ IF Len(old_sig.params) # Len(new_sig.v.params)
               THEN /\ named("ParameterCountChanged") = 1
                    /\ exact(ParameterCountChanged(old_sig.name, Len(old_sig.params),
                                                   Len(new_sig.v.params))) = 1
                    /\ named("ParameterTypeChanged") = 0
               ELSE /\ named("ParameterCountChanged") = 0
                    /\ \A k \in 1..Len(old_sig.params) :
                           exact(ParameterTypeChanged(old_sig.name, k - 1,
                                                      old_sig.params[k],
                                                      new_sig.v.params[k]))
                           = IF old_sig.params[k] # new_sig.v.params[k] THEN 1 ELSE 0
                    /\ named("ParameterTypeChanged") =
                           Cardinality({k \in 1..Len(old_sig.params) :
                                           old_sig.params[k] # new_sig.v.params[k]})
            /\ named("ReturnTypeChanged") =
                   IF old_sig.results # new_sig.v.results THEN 1 ELSE 0
            /\ exact(ReturnTypeChanged(old_sig.name, old_sig.results,
                                       new_sig.v.results))
                   = named("ReturnTypeChanged")

\* C35: for an old function that is also in new, the diff holds one
\* ParameterCountChanged and no ParameterTypeChanged when the parameter
\* counts differ, one ParameterTypeChanged per index with different types
\* when they are equal, and one ReturnTypeChanged exactly when the results
\* differ; an old function absent from new yields FunctionRemoved only.
C35_ChangesPerFunction ==
    (up_out.done /\ up_out.res.ok) =>
        \A i \in 1..Len(up_in.old_wasm.v) :
            EmittedFor(up_out.res.v.breaking_changes, up_in.old_wasm.v[i],
                       up_in.new_wasm.v)

\* foo(i32, i32) -> [] against foo(i64, i64) -> [i64]: both parameters and
\* the result are reported.
C35_Witness ==
    /\ up_out.done /\ up_out.res.ok
    /\ up_in.old_wasm.v = <<FunctionSignature("foo", <<"i32", "i32">>, <<>>)>>
    /\ up_out.res.v.breaking_changes =
           <<ParameterTypeChanged("foo", 0, "i32", "i64"),
             ParameterTypeChanged("foo", 1, "i32", "i64"),
             ReturnTypeChanged("foo", <<>>, <<"i64">>)>>

\* The operators that occur somewhere in the condition string.
Occurring == {op \in Operators : Occurrences(cond_in, OperatorText(op)) # {}}

\* The place of an operator in the list >=, <=, ==, !=, >, <.
ListPlace(op) ==
    CHOOSE i \in 1..6 : <<"Ge", "Le", "Eq", "Ne", "Gt", "Lt">>[i] = op

\* The occurring operator that comes first in the list.
FirstListed == CHOOSE op \in Occurring : \A o \in Occurring : ListPlace(op) <= ListPlace(o)

\* The leftmost place of an operator's text in the condition string.
Leftmost(op) ==
    CHOOSE i \in Occurrences(cond_in, OperatorText(op)) :
        \A j \in Occurrences(cond_in, OperatorText(op)) : i <= j

\* What follows the first ']' of the condition string, trimmed.
AfterBracket ==
    Trim(SubSeq(cond_in, Find(cond_in, <<"]">>) + 1, Len(cond_in)))

\* C36: a condition string that does not start with storage[ is split at
\* the leftmost occurrence of the first operator of the list >=, <=, ==,
\* !=, >, < that occurs in it ("n >= 5" gives >= and 5), and is an error
\* when no operator occurs; a string that starts with storage[ gives a
\* Storage condition, or an error when ']' is missing or no operator
\* follows it, never an Argument condition.
C36_FirstListedOperator ==
    cond_out.done =>
        IF StartsWith(cond_in, StoragePrefix)
        THEN /\ cond_out.res.ok => cond_out.res.v.kind = "Storage"
             /\ ~cond_out.res.ok <=>
                    \/ Occurrences(cond_in, <<"]">>) = {}
                    \/ \A op \in Operators : ~StartsWith(AfterBracket, OperatorText(op))
        ELSE IF Occurring = {}
        THEN cond_out.res =
                 Err("String", <<"No operator found (use ==, !=, >, <, >=, <=)">>)
        ELSE cond_out.res =
                 Ok(ArgumentCondition(
                     Trim(SubSeq(cond_in, 1, Leftmost(FirstListed) - 1)),
                     FirstListed,
                     Trim(SubSeq(cond_in,
                                 Leftmost(FirstListed) + Len(OperatorText(FirstListed)),
                                 Len(cond_in)))))

\* "n >= 5" parsed: the operator is >= and the value 5.
C36_Witness ==
    /\ cond_out.done
    /\ cond_in = <<"n", " ", ">", "=", " ", "5">>
    /\ cond_out.res = Ok(ArgumentCondition(<<"n">>, "Ge", <<"5">>))

\* The host call did not give a value that converts.
HostError(r) == ~(r.kind = "OkOk" /\ r.conv)

\* C37: when the host invocation yields an error outcome or the capture of
\* storage_after fails, execute returns an error and last_execution() keeps
\* the record of the last successful call; the executor leaves the storage
\* as the guest left it, and the next call captures it as storage_before
\* (in every step that leaves the process running).
C37_FailedCallKeepsRecord ==
    [][exitCode' = Running =>
       /\ ((pc = "return" /\ pc' = "idle" /\ HostError(cur.invocation_result))
            \/ (pc = "storage_after" /\ pc' = "idle")) =>
              /\ ~lastResult'.res.ok
              /\ last_execution' = last_execution
              /\ storage' = storage
       /\ last_execution' # last_execution =>
              pc = "return" /\ ~HostError(cur.invocation_result)
       /\ pc \in {"cancel", "storage_after", "format", "emit", "return"} =>
              storage' = storage
       /\ (pc = "storage_before" /\ pc' = "convert_args") =>
              cur'.storage_before = CaptureSnapshot(storage)]_vars

\* execute has returned the error of a contract error code after a
\* successful call; last_execution() is the record of the successful call,
\* and the storage is no longer the one that record ends with.
C37_Witness ==
    /\ pc = "idle"
    /\ lastResult.op = "execute" /\ ~lastResult.res.ok
    /\ lastInvoke.some /\ lastInvoke.v.host.kind = "Contract"
    /\ last_execution.some
    /\ CaptureSnapshot(storage) # last_execution.v.storage_after

\* C38: the watchdog guards only the host call. A watchdog starts waiting only
\* in the step that follows the storage_before capture and the argument
\* conversion, and that step leads straight to the host call with the clock
\* at zero; the signal is sent in the step that follows the host call, before
\* the storage_after capture and the formatting; a return out of the
\* storage_before capture or the argument conversion spawns no watchdog; and
\* a watchdog observes the timeout only while the host call of its own
\* invocation is outstanding and the signal has not been sent, so no time
\* spent in another phase makes a watchdog time out.
C38_WatchdogGuardsHostCall ==
    [][/\ \A i \in Calls :
            /\ (wd[i] = "none" /\ wd'[i] # "none") =>
                   /\ pc = "watchdog" /\ pc' = "invoke"
                   /\ events = <<"storage_before">>
                   /\ cur'.id = i /\ clock' = 0
                   /\ wd'[i] = "waiting" /\ ~chan'[i].msg /\ chan'[i].txAlive
            /\ (wd[i] # "timedout" /\ wd'[i] = "timedout") =>
                   /\ pc \in {"invoke", "cancel"}
                   /\ cur.id = i
                   /\ ~chan[i].msg
            /\ (~chan[i].msg /\ chan'[i].msg) =>
                   /\ pc = "cancel" /\ pc' = "storage_after"
                   /\ cur.id = i
                   /\ events = <<"storage_before", "invocation">>
       /\ (pc \in {"storage_before", "convert_args"} /\ pc' = "idle") =>
            /\ ncalls' = ncalls
            /\ wd' = wd
            /\ chan' = chan
       /\ (exitCode' = Running /\ pc' \in {"storage_after", "format", "emit", "return"}) =>
            (cur'.id # 0 /\ chan'[cur'.id].txAlive => chan'[cur'.id].msg)]_vars

\* An invocation with a timeout is formatting its result: its watchdog was
\* launched, the signal reached it while it was still waiting, and the
\* process runs on.
C38_Witness ==
    /\ exitCode = Running
    /\ pc = "format"
    /\ cur.id # 0 /\ cur.timeout > 0
    /\ chan[cur.id].msg /\ chan[cur.id].early
    /\ wd[cur.id] = "done"

\* C39: a dispatcher is registered for every contract id of the registry the
\* executor holds, and every registered dispatcher holds that same registry,
\* the one get_mock_call_log reads: none is left over from an earlier
\* installation with a registry the executor has replaced.
C39_DispatchersShareRegistry ==
    \A c \in ContractIds :
        /\ c \in mock_registry.ids => dispatchers[c] = "current"
        /\ dispatchers[c] \in {"none", "current"}

====
